---- MODULE Spec2Model ----
(***************************************************************************)
(* Model of the XAUUSD assistant's response parser, safety gate and alert  *)
(* gate (src/analyzer.py, MarketAnalyzer) with the thresholds of           *)
(* src/config.py, of the session classifier, of the model retry loop and   *)
(* of the scheduled analysis cycles (src/main.py, src/main_bot.py).        *)
(*                                                                         *)
(* A model response is a set of labelled lines; the text that follows a    *)
(* label is a sequence of characters.  A character is written as a one     *)
(* letter string; the characters that have no ASCII form are named:        *)
(*   "NL"      line feed                                                   *)
(*   "TAB"     horizontal tab                                              *)
(*   "I_DOT"   U+0130, LATIN CAPITAL LETTER I WITH DOT ABOVE               *)
(*   "i_NODOT" U+0131, LATIN SMALL LETTER DOTLESS I                        *)
(*   "s_LONG"  U+017F, LATIN SMALL LETTER LONG S                           *)
(***************************************************************************)
EXTENDS Integers, Sequences, FiniteSets, TLC

VARIABLES
    analysis_mode,          \* MarketAnalyzer.analysis_mode
    config,                 \* the thresholds of config.py read by the gates
    pc,                     \* position inside parse_structured_output
    analysis_text,          \* argument of parse_structured_output
    market_data,            \* argument of parse_structured_output
    market_bias,            \* locals of parse_structured_output
    bias_strength,
    confidence,
    trade_recommendation,
    risk_level,
    stop_loss,
    take_profit_1,
    take_profit_2,
    result,                 \* the record returned to the caller, <<>> before
    raised,                 \* TRUE when an exception escaped to the caller
    alert_in,               \* the last record given to should_alert, <<>> if none
    alert_out,              \* what should_alert returned for alert_in
    utc_minute,             \* datetime.now(pytz.UTC) as minute of the day
    session,                \* what get_trading_session returned, "" before
    doc_a,                  \* a model response, and
    doc_b,                  \*   one that differs from it in one field
    rec_a,                  \* parse_structured_output of doc_a, <<>> before
    rec_b,                  \* parse_structured_output of doc_b, <<>> before
    program,                \* which entry point runs: "assistant" or "bot"
    is_running,             \* TradingAssistant.is_running
    run_count,              \* TradingAssistant.run_count
    last_run_time,          \* TradingAssistant.last_run_time, <<>> before
    is_analyzing,           \* UnifiedTradingBot.is_analyzing
    total_auto_runs,        \* UnifiedTradingBot.total_auto_runs
    last_auto_run,          \* UnifiedTradingBot.last_auto_run, <<>> before
    cycle_pc,               \* position inside the running cycle
    cycle_analysis,         \* local of the cycle: what analyze_market gave
    events,                 \* what the current cycle has done to the outside
    ended,                  \* how the last cycle ended, "" before
    escaped,                \* the exception that left the cycle, "" if none
    skipped,                \* triggers dropped by the busy flag
    now,                    \* datetime.now() as a tick count
    api_keys,               \* MarketAnalyzer.api_keys, a list of key names
    current_key_index,      \* MarketAnalyzer.current_key_index
    analysis_count,         \* MarketAnalyzer.analysis_count
    retry_pc,               \* position inside analyze_market
    attempt,                \* loop variable of analyze_market
    last_error,             \* local of analyze_market, "" for None
    calls,                  \* generate_content calls made by this call
    keys_used,              \* key indexes this call has sent a request with
    structured,             \* what analyze_market returned, <<>> before
    rotated,                \* calls of _rotate_api_key so far and what the last returned
    log_file,               \* the file LOG_FILE
    perf_file,              \* the file PERFORMANCE_LOG
    market_file,            \* the file MARKET_DATA_FILE
    appended,               \* entries the logger has been asked to append
    log_call,               \* the last logger call: its inputs and what it returned, <<>> before
    enabled_methods,        \* Notifier.enabled_methods, a set of channel names
    notification_count,     \* Notifier.notification_count
    alert_pc,               \* where send_alert stands: "idle", a channel, "returned", "raised"
    results,                \* the results dict of send_alert: channel -> "unset", "True", "False"
    attempts,               \* how often each channel's send function ran in this call
    analyzer,               \* the MarketAnalyzer in use: analysis_mode, timeframe, analysis_count; <<>> before
    built_with,             \* the arguments the analyzer in use was built with
    built,                  \* MarketAnalyzer objects built in this process
    epoch,                  \* int(datetime.now().timestamp()), seconds since the process started
    issued,                 \* the analysis_id of every record analyze_market returned, with its analyzer
    total_manual_runs,      \* UnifiedTradingBot.total_manual_runs
    tasks,                  \* the handler coroutines of the bot: kind and the await they stand at
    delivered,              \* what the five news sources deliver to get_all_news
    news_out                \* what get_all_news ended in, <<>> before

parserVars == <<analysis_mode, config, pc, analysis_text, market_data,
                market_bias, bias_strength, confidence, trade_recommendation,
                risk_level, stop_loss, take_profit_1, take_profit_2, result,
                raised, alert_in, alert_out>>

sessionVars == <<utc_minute, session>>

docVars == <<doc_a, doc_b, rec_a, rec_b>>

assistantVars == <<is_running, run_count, last_run_time>>

botVars == <<is_analyzing, total_auto_runs, last_auto_run>>

cycleVars == <<program, assistantVars, botVars, cycle_pc, cycle_analysis,
               events,
               ended, escaped, skipped, now>>

retryVars == <<api_keys, current_key_index, analysis_count, retry_pc,
               attempt, last_error, calls, keys_used, structured, rotated>>

logVars == <<log_file, perf_file, market_file, appended, log_call>>

alertVars == <<enabled_methods, notification_count, alert_pc, results, attempts>>

analyzerVars == <<analyzer, built_with, built, epoch, issued>>

taskVars == <<total_manual_runs, tasks>>

newsVars == <<delivered, news_out>>

\* the variables outside parse_structured_output and should_alert
others == <<sessionVars, docVars, cycleVars, retryVars, logVars, alertVars, analyzerVars, taskVars, newsVars>>

\* the variables the session classifier leaves alone
notSession == <<parserVars, docVars, cycleVars, retryVars, logVars, alertVars, analyzerVars, taskVars, newsVars>>

\* the variables a parse of a pair of responses leaves alone
notDoc == <<parserVars, session, cycleVars, retryVars, logVars, alertVars, analyzerVars, taskVars, newsVars>>

\* the variables a cycle leaves alone
notCycle == <<parserVars, sessionVars, docVars, retryVars, logVars, alertVars, analyzerVars, taskVars, newsVars>>

\* the variables analyze_market leaves alone
notRetry == <<parserVars, sessionVars, docVars, cycleVars, logVars, alertVars, analyzerVars, taskVars, newsVars>>

\* the variables the logger leaves alone
notLog == <<parserVars, sessionVars, docVars, cycleVars, retryVars, alertVars, analyzerVars, taskVars, newsVars>>

\* the variables outside the notifier
notNotify == <<parserVars, sessionVars, docVars, cycleVars, retryVars, logVars, analyzerVars, taskVars, newsVars>>

\* the variables outside the construction of analyzers and their ids
notAnalyzer == <<parserVars, sessionVars, docVars, cycleVars, retryVars, logVars, alertVars, taskVars, newsVars>>

\* the variables outside the handler coroutines
notTasks == <<parserVars, sessionVars, docVars, cycleVars, retryVars, logVars, alertVars, analyzerVars, newsVars>>

\* the variables outside get_all_news
notNews == <<parserVars, sessionVars, docVars, cycleVars, retryVars, logVars, alertVars, analyzerVars, taskVars>>

vars == <<parserVars, others>>

locals == <<market_bias, bias_strength, confidence, trade_recommendation,
            risk_level, stop_loss, take_profit_1, take_profit_2>>

----------------------------------------------------------------------------
(* Program constants                                                       *)

CONFIDENCE_THRESHOLD == 6
SCALPING_CONFIDENCE_THRESHOLD == 7

Modes == {"ultra_scalping", "scalping", "intraday", "swing"}

\* mutant: the first window is closed at its upper end
get_trading_session_le(minute) ==
    LET hour == minute \div 60
    IN IF 0 <= hour /\ hour <= 8 THEN "ASIA"
       ELSE IF 8 <= hour /\ hour < 16 THEN "LONDON"
       ELSE IF 16 <= hour /\ hour < 22 THEN "NEW_YORK"
       ELSE "ASIA_LATE"

\* get_trading_session for the UTC time of day given in minutes
get_trading_session(minute) ==
    LET hour == minute \div 60
    IN IF 0 <= hour /\ hour < 8 THEN "ASIA"
       ELSE IF 8 <= hour /\ hour < 16 THEN "LONDON"
       ELSE IF 16 <= hour /\ hour < 22 THEN "NEW_YORK"
       ELSE "ASIA_LATE"

\* the minute-of-day values of datetime.now(pytz.UTC)
MinutesOfDay == 0 .. (24 * 60 - 1)

\* Python's None and an optional value
None == <<>>
Some(v) == <<v>>

----------------------------------------------------------------------------
(* Characters: re.IGNORECASE comparison and str.upper()                    *)

LowerLetters == <<"a","b","c","d","e","f","g","h","i","j","k","l","m",
                  "n","o","p","q","r","s","t","u","v","w","x","y","z">>
UpperLetters == <<"A","B","C","D","E","F","G","H","I","J","K","L","M",
                  "N","O","P","Q","R","S","T","U","V","W","X","Y","Z">>

IndexIn(seq, c) == IF \E i \in 1..Len(seq) : seq[i] = c
                   THEN CHOOSE i \in 1..Len(seq) : seq[i] = c
                   ELSE 0

\* the simple lower-case mapping the regex engine applies to a character
SreLower(c) ==
    IF IndexIn(UpperLetters, c) # 0 THEN LowerLetters[IndexIn(UpperLetters, c)]
    ELSE IF c = "I_DOT" THEN "i"
    ELSE c

\* the characters a lower-cased pattern letter accepts under IGNORECASE
SreCases(p) ==
    IF p = "i" THEN {"i", "i_NODOT"}
    ELSE IF p = "s" THEN {"s", "s_LONG"}
    ELSE {p}

\* pattern character p against text character c, case-insensitively
MatchIgnoreCase(p, c) == SreLower(c) \in SreCases(SreLower(p))

\* str.upper() on one character
UpperChar(c) ==
    IF IndexIn(LowerLetters, c) # 0 THEN UpperLetters[IndexIn(LowerLetters, c)]
    ELSE IF c = "i_NODOT" THEN "I"
    ELSE IF c = "s_LONG" THEN "S"
    ELSE c

Upper(s) == [i \in 1..Len(s) |-> UpperChar(s[i])]

IsSpace(c) == c \in {" ", "NL", "TAB"}
Digits == <<"0","1","2","3","4","5","6","7","8","9">>
IsDigit(c) == IndexIn(Digits, c) # 0
DigitVal(c) == IndexIn(Digits, c) - 1

\* position of the first character at or after i that is not white space
RECURSIVE SkipSpace(_, _)
SkipSpace(s, i) ==
    IF i <= Len(s) /\ IsSpace(s[i]) THEN SkipSpace(s, i + 1) ELSE i

\* position after the longest run of digits starting at i
RECURSIVE SkipDigits(_, _)
SkipDigits(s, i) ==
    IF i <= Len(s) /\ IsDigit(s[i]) THEN SkipDigits(s, i + 1) ELSE i

\* int() of a string of digits
RECURSIVE PyInt(_)
PyInt(d) ==
    IF d = <<>> THEN 0
    ELSE 10 * PyInt(SubSeq(d, 1, Len(d) - 1)) + DigitVal(d[Len(d)])

----------------------------------------------------------------------------
(* The model response.  A labelled line is [label, val]: label says whether *)
(* the label is written exactly as in the prompt ("exact") or in another   *)
(* letter case ("lower"); val is the text after the colon.  A field of the *)
(* text is None when the response has no such line.                        *)

Line(label, val) == Some([label |-> label, val |-> val])

\* the tokens of the fixed vocabularies, as Python strings
BULLISH  == <<"B","U","L","L","I","S","H">>
BEARISH  == <<"B","E","A","R","I","S","H">>
NEUTRAL  == <<"N","E","U","T","R","A","L">>
BUY      == <<"B","U","Y">>
SELL     == <<"S","E","L","L">>
NO_TRADE == <<"N","O"," ","T","R","A","D","E">>
LOW      == <<"L","O","W">>
MEDIUM   == <<"M","E","D","I","U","M">>
HIGH     == <<"H","I","G","H">>

\* does alt match s at position i, ignoring case
MatchAt(s, i, alt) ==
    /\ i + Len(alt) - 1 <= Len(s)
    /\ \A k \in 1..Len(alt) : MatchIgnoreCase(alt[k], s[i + k - 1])

\* re.search(r'<Label>:\s*(A|B|C)', text, re.IGNORECASE): group(1) or None
EnumSearch(line, alts) ==
    IF line = None THEN None
    ELSE LET s == line[1].val
             i == SkipSpace(s, 1)
             hits == {a \in 1..Len(alts) : MatchAt(s, i, alts[a])}
         IN IF hits = {} THEN None
            ELSE LET a == CHOOSE x \in hits : \A y \in hits : x <= y
                 IN Some(SubSeq(s, i, i + Len(alts[a]) - 1))

\* re.search(r'<Label>:\s*(\d+)', text): group(1) or None
IntSearch(line) ==
    IF line = None \/ line[1].label # "exact" THEN None
    ELSE LET s == line[1].val
             i == SkipSpace(s, 1)
             j == SkipDigits(s, i)
         IN IF j = i THEN None ELSE Some(SubSeq(s, i, j - 1))

\* re.search(r'<Label>:\s*\$?(\d+(?:\.\d+)?)', text): group(1) or None
PriceSearch(line) ==
    IF line = None \/ line[1].label # "exact" THEN None
    ELSE LET s == line[1].val
             i0 == SkipSpace(s, 1)
             i == IF i0 <= Len(s) /\ s[i0] = "$" THEN i0 + 1 ELSE i0
             j == SkipDigits(s, i)
             k == IF j <= Len(s) /\ s[j] = "." THEN SkipDigits(s, j + 1) ELSE j
             e == IF k > j + 1 THEN k ELSE j
         IN IF j = i THEN None ELSE Some(SubSeq(s, i, e - 1))

\* float() of digits with an optional fraction: n / 10^e
PyFloat(g) ==
    LET d == IndexIn(g, ".")
    IN IF d = 0 THEN [n |-> PyInt(g), e |-> 0]
       ELSE [n |-> PyInt(SubSeq(g, 1, d - 1) \o SubSeq(g, d + 1, Len(g))),
             e |-> Len(g) - d]

\* truth value of an optional float (None and 0.0 are false)
Truthy(x) == x # None /\ x[1].n # 0

Min(a, b) == IF a < b THEN a ELSE b
Max(a, b) == IF a > b THEN a ELSE b

----------------------------------------------------------------------------
(* Inputs                                                                  *)

NonText == [kind |-> "nontext"]

BiasLines ==
    { None,
      Line("exact", <<" ","b","u","l","l","i","s","h">>),
      Line("exact", <<" ","B","E","A","R","I_DOT","S","H">>),
      Line("exact", <<" ","S","I","D","E","W","A","Y","S">>) }

StrengthLines ==
    { None,
      Line("exact", <<" ","0">>),
      Line("exact", <<" ","9","9","9">>) }

ConfidenceLines ==
    { None,
      Line("exact", <<" ","5">>),
      Line("exact", <<" ","6","/","1","0">>),
      Line("exact", <<" ","7">>),
      Line("exact", <<" ","9","9","9">>),
      Line("lower", <<" ","9">>) }

TradeLines ==
    { None,
      Line("exact", <<" ","B","U","Y">>),
      Line("lower", <<" ","s_LONG","e","l","l">>),
      Line("exact", <<" ","N","O"," ","T","R","A","D","E">>),
      Line("exact", <<" ","H","O","L","D">>) }

RiskLines ==
    { None,
      Line("exact", <<" ","L","O","W">>),
      Line("exact", <<"NL","h","i_NODOT","g","h">>),
      Line("exact", <<" ","H","I_DOT","G","H">>),
      Line("exact", <<" ","U","N","K","N","O","W","N">>) }

StopLossLines ==
    { None,
      Line("exact", <<" ","$","2","6","5","0",".","5">>),
      Line("exact", <<" ","0">>),
      Line("exact", <<" ","N","/","A">>) }

TakeProfitLines ==
    { None,
      Line("exact", <<" ","2","6","7","0">>) }

Texts ==
    { [kind |-> "text", bias |-> b, strength |-> s, conf |-> c, trade |-> t,
       risk |-> r, sl |-> l, tp1 |-> p, tp2 |-> p] :
        b \in BiasLines, s \in StrengthLines, c \in ConfidenceLines,
        t \in TradeLines, r \in RiskLines, l \in StopLossLines,
        p \in TakeProfitLines }
    \cup {NonText}

\* market_data: a snapshot dictionary, or a value that is no dictionary
MarketData == {"snapshot", "None"}

----------------------------------------------------------------------------
(* parse_structured_output: field extraction with defaults                 *)

ExtractMarketBias(text) ==
    LET m == EnumSearch(text.bias, <<BULLISH, BEARISH, NEUTRAL>>)
    IN IF m # None THEN Upper(m[1]) ELSE NEUTRAL

\* mutant: the clamp of line 445 is missing
ExtractBiasStrengthNoClamp(text) ==
    LET m == IntSearch(text.strength)
    IN IF m # None THEN PyInt(m[1]) ELSE 5

ExtractBiasStrength(text) ==
    LET m == IntSearch(text.strength)
        v == IF m # None THEN PyInt(m[1]) ELSE 5
    IN Max(1, Min(10, v))

ExtractConfidenceScore(text) ==
    LET m == IntSearch(text.conf)
        v == IF m # None THEN PyInt(m[1]) ELSE 0
    IN Max(0, Min(10, v))

ExtractTradeRecommendation(text) ==
    LET m == EnumSearch(text.trade, <<BUY, SELL, NO_TRADE>>)
    IN IF m # None THEN Upper(m[1]) ELSE NO_TRADE

ExtractRiskLevel(text) ==
    LET m == EnumSearch(text.risk, <<LOW, MEDIUM, HIGH>>)
    IN IF m # None THEN Upper(m[1]) ELSE HIGH

ExtractPrice(line) ==
    LET m == PriceSearch(line)
    IN IF m # None THEN Some(PyFloat(m[1])) ELSE None

(* parse_structured_output: the three safety nets                          *)

\* mutant: the confidence net also writes the other branch
ConfidenceRuleElseBuy(conf, rec) ==
    IF conf < 6 THEN NO_TRADE ELSE BUY

\* mutant: the confidence net compares with 5
ConfidenceRuleBelow5(conf, rec) ==
    IF conf < 5 THEN NO_TRADE ELSE rec

ConfidenceRule(conf, rec) ==
    IF conf < 6 THEN NO_TRADE ELSE rec

\* mutant: the scalping net looks at MEDIUM risk
ScalpingRuleMedium(mode, risk, rec) ==
    IF mode = "scalping" /\ risk = MEDIUM THEN NO_TRADE ELSE rec

ScalpingRule(mode, risk, rec) ==
    IF mode = "scalping" /\ risk = HIGH THEN NO_TRADE ELSE rec

\* mutant: the stop-loss net tests for None, so 0.0 counts as a stop loss
StopLossRuleIsNone(sl, rec) ==
    IF rec \in {BUY, SELL} /\ sl = None THEN NO_TRADE ELSE rec

\* mutant: the stop-loss net covers SELL only
StopLossRuleSellOnly(sl, rec) ==
    IF rec = SELL /\ ~Truthy(sl) THEN NO_TRADE ELSE rec

StopLossRule(sl, rec) ==
    IF rec \in {BUY, SELL} /\ ~Truthy(sl) THEN NO_TRADE ELSE rec

\* mutant: the except clause names two classes only
CatchesTypeAndValue(exc) == exc \in {"TypeError", "ValueError"}

\* the exception classes the except clause of parse_structured_output catches
Catches(exc) == exc \in {"TypeError", "AttributeError", "ValueError"}

SuccessRecord ==
    [success |-> TRUE,
     analysis_id |-> "analysis_id",
     timestamp |-> "now",
     analysis_mode |-> analysis_mode,
     market_bias |-> market_bias,
     bias_strength |-> bias_strength,
     trade_recommendation |-> trade_recommendation,
     confidence |-> confidence,
     risk_level |-> risk_level,
     stop_loss |-> stop_loss,
     take_profit_1 |-> take_profit_1,
     take_profit_2 |-> take_profit_2,
     full_analysis |-> analysis_text]

FailureRecord ==
    [success |-> FALSE,
     error |-> "Parsing failed",
     raw_output |-> analysis_text,
     timestamp |-> "now",
     analysis_id |-> "analysis_id"]

\* the keys of a record that carry the decision
DecisionFields ==
    {"market_bias", "bias_strength", "trade_recommendation", "confidence",
     "risk_level", "stop_loss", "take_profit_1", "take_profit_2"}

----------------------------------------------------------------------------
(* should_alert                                                            *)

\* dict.get(key, default)
Get(d, key, default) == IF key \in DOMAIN d THEN d[key] ELSE default

\* mutant: the stop-loss test of line 569 is missing
should_alert_no_stop(mode, cfg, analysis) ==
    LET trade_rec == Get(analysis, "trade_recommendation", NO_TRADE)
        conf == Get(analysis, "confidence", 0)
        risk == Get(analysis, "risk_level", HIGH)
    IN IF ~Get(analysis, "success", FALSE) THEN FALSE
       ELSE IF trade_rec = NO_TRADE THEN FALSE
       ELSE IF conf < cfg.CONFIDENCE_THRESHOLD THEN FALSE
       ELSE IF mode = "scalping" /\ conf < 7 THEN FALSE
       ELSE IF mode = "scalping" /\ risk = HIGH THEN FALSE
       ELSE TRUE

should_alert(mode, cfg, analysis) ==
    LET trade_rec == Get(analysis, "trade_recommendation", NO_TRADE)
        conf == Get(analysis, "confidence", 0)
        risk == Get(analysis, "risk_level", HIGH)
    IN IF ~Get(analysis, "success", FALSE) THEN FALSE
       ELSE IF trade_rec = NO_TRADE THEN FALSE
       ELSE IF conf < cfg.CONFIDENCE_THRESHOLD THEN FALSE
       ELSE IF mode = "scalping" /\ conf < 7 THEN FALSE
       ELSE IF mode = "scalping" /\ risk = HIGH THEN FALSE
       ELSE IF ~Truthy(Get(analysis, "stop_loss", None)) THEN FALSE
       ELSE TRUE

\* records a caller may hand to should_alert, with any of the keys missing
AlertKeys == {"success", "trade_recommendation", "confidence", "risk_level",
              "stop_loss"}

FullRecords ==
    [success : BOOLEAN,
     trade_recommendation : {BUY, SELL, NO_TRADE},
     confidence : {5, 6, 7, 8},
     risk_level : {LOW, HIGH},
     stop_loss : {None, Some([n |-> 0, e |-> 0]), Some([n |-> 2650, e |-> 0])}]

AnyRecords ==
    { [k \in D |-> r[k]] : r \in FullRecords, D \in SUBSET AlertKeys }

----------------------------------------------------------------------------
(* Initial states                                                          *)

ShippedConfig ==
    [CONFIDENCE_THRESHOLD |-> CONFIDENCE_THRESHOLD,
     SCALPING_CONFIDENCE_THRESHOLD |-> SCALPING_CONFIDENCE_THRESHOLD]

\* settings a user may write into config.py
Configs ==
    { ShippedConfig,
      [ShippedConfig EXCEPT !.SCALPING_CONFIDENCE_THRESHOLD = 8] }

InitRest ==
    /\ analysis_mode \in Modes
    /\ pc = "idle"
    /\ analysis_text = NonText
    /\ market_data = "None"
    /\ market_bias = None
    /\ bias_strength = 0
    /\ confidence = 0
    /\ trade_recommendation = None
    /\ risk_level = None
    /\ stop_loss = None
    /\ take_profit_1 = None
    /\ take_profit_2 = None
    /\ result = None
    /\ raised = FALSE
    /\ alert_in = None
    /\ alert_out = FALSE

\* the wall clock is not read and get_trading_session has not been called
SessionIdle == utc_minute = 0 /\ session = ""

\* no pair of responses has been chosen
DocIdle == doc_a = None /\ doc_b = None /\ rec_a = None /\ rec_b = None

\* TradingAssistant.__init__ and UnifiedTradingBot.__init__
CycleIdle ==
    /\ is_running = FALSE
    /\ run_count = 0
    /\ last_run_time = None
    /\ is_analyzing = FALSE
    /\ total_auto_runs = 0
    /\ last_auto_run = None
    /\ cycle_pc = "idle"
    /\ cycle_analysis = "none"
    /\ events = {}
    /\ ended = ""
    /\ escaped = ""
    /\ skipped = 0
    /\ now = 0

\* analyze_market has not been called
RetryIdle ==
    /\ current_key_index = 0
    /\ analysis_count = 0
    /\ retry_pc = "idle"
    /\ attempt = 0
    /\ last_error = ""
    /\ calls = 0
    /\ keys_used = {}
    /\ structured = None
    /\ rotated = [calls |-> 0, returned |-> FALSE]

\* an analyzer built with one key
OneKey == RetryIdle /\ api_keys = <<"key1">>

LogIdle ==
    /\ log_file = [kind |-> "missing"]
    /\ perf_file = [kind |-> "missing"]
    /\ market_file = [kind |-> "missing"]
    /\ appended = 0
    /\ log_call = <<>>

NotifyIdle ==
    /\ enabled_methods = {"console", "file"}
    /\ notification_count = 0
    /\ alert_pc = "idle"
    /\ results = [c \in {"console", "file", "email", "telegram"} |-> "unset"]
    /\ attempts = [c \in {"console", "file", "email", "telegram"} |-> 0]

AnalyzerIdle ==
    /\ analyzer = <<>>
    /\ built_with = <<>>
    /\ built = 0
    /\ epoch = 0
    /\ issued = <<>>

TasksIdle ==
    /\ total_manual_runs = 0
    /\ tasks = <<>>

NewsIdle ==
    /\ delivered = <<>>
    /\ news_out = <<>>

OthersIdle ==
    SessionIdle /\ DocIdle /\ CycleIdle /\ program = "assistant" /\ OneKey
    /\ LogIdle
    /\ NotifyIdle
    /\ AnalyzerIdle
    /\ TasksIdle
    /\ NewsIdle

Init == config = ShippedConfig /\ InitRest /\ OthersIdle

InitCfg == config \in Configs /\ InitRest /\ OthersIdle

----------------------------------------------------------------------------
(* Actions                                                                 *)

\* a caller invokes parse_structured_output(analysis_text, market_data, id)
Call(text, md) ==
    /\ pc = "idle"
    /\ analysis_text' = text
    /\ market_data' = md
    /\ pc' = "bias"
    /\ alert_in' = None
    /\ alert_out' = FALSE
    /\ UNCHANGED <<analysis_mode, config, locals, result, raised>>
    /\ UNCHANGED others

\* the caller is done with the record and discards it; the locals of the
\* finished call no longer exist
Discard ==
    /\ pc \in {"done", "alerted"}
    /\ pc' = "idle"
    /\ analysis_text' = NonText
    /\ market_data' = "None"
    /\ market_bias' = None
    /\ bias_strength' = 0
    /\ confidence' = 0
    /\ trade_recommendation' = None
    /\ risk_level' = None
    /\ stop_loss' = None
    /\ take_profit_1' = None
    /\ take_profit_2' = None
    /\ result' = None
    /\ raised' = FALSE
    /\ alert_in' = None
    /\ alert_out' = FALSE
    /\ UNCHANGED <<analysis_mode, config>>
    /\ UNCHANGED others

\* an exception of class exc is thrown inside the try block
Throw(exc) ==
    IF Catches(exc)
    THEN pc' = "except" /\ raised' = FALSE
    ELSE pc' = "done" /\ raised' = TRUE

ExtractBias ==
    /\ pc = "bias"
    /\ IF analysis_text.kind # "text"
       THEN Throw("TypeError") /\ UNCHANGED market_bias
       ELSE /\ market_bias' = ExtractMarketBias(analysis_text)
            /\ pc' = "strength"
            /\ UNCHANGED raised
    /\ UNCHANGED <<analysis_mode, config, analysis_text, market_data,
                   bias_strength, confidence, trade_recommendation,
                   risk_level, stop_loss, take_profit_1, take_profit_2,
                   result, alert_in, alert_out>>
    /\ UNCHANGED others

ExtractStrength ==
    /\ pc = "strength"
    /\ bias_strength' = ExtractBiasStrength(analysis_text)
    /\ pc' = "confidence"
    /\ UNCHANGED <<analysis_mode, config, analysis_text, market_data,
                   market_bias, confidence, trade_recommendation,
                   risk_level, stop_loss, take_profit_1, take_profit_2,
                   result, raised, alert_in, alert_out>>
    /\ UNCHANGED others

ExtractConfidence ==
    /\ pc = "confidence"
    /\ confidence' = ExtractConfidenceScore(analysis_text)
    /\ pc' = "trade"
    /\ UNCHANGED <<analysis_mode, config, analysis_text, market_data,
                   market_bias, bias_strength, trade_recommendation,
                   risk_level, stop_loss, take_profit_1, take_profit_2,
                   result, raised, alert_in, alert_out>>
    /\ UNCHANGED others

ExtractTrade ==
    /\ pc = "trade"
    /\ trade_recommendation' = ExtractTradeRecommendation(analysis_text)
    /\ pc' = "confidence_net"
    /\ UNCHANGED <<analysis_mode, config, analysis_text, market_data,
                   market_bias, bias_strength, confidence,
                   risk_level, stop_loss, take_profit_1, take_profit_2,
                   result, raised, alert_in, alert_out>>
    /\ UNCHANGED others

ConfidenceOverride ==
    /\ pc = "confidence_net"
    /\ trade_recommendation' = ConfidenceRule(confidence, trade_recommendation)
    /\ pc' = "risk"
    /\ UNCHANGED <<analysis_mode, config, analysis_text, market_data,
                   market_bias, bias_strength, confidence,
                   risk_level, stop_loss, take_profit_1, take_profit_2,
                   result, raised, alert_in, alert_out>>
    /\ UNCHANGED others

ExtractRisk ==
    /\ pc = "risk"
    /\ risk_level' = ExtractRiskLevel(analysis_text)
    /\ pc' = "scalping_net"
    /\ UNCHANGED <<analysis_mode, config, analysis_text, market_data,
                   market_bias, bias_strength, confidence,
                   trade_recommendation, stop_loss, take_profit_1,
                   take_profit_2, result, raised, alert_in, alert_out>>
    /\ UNCHANGED others

ScalpingOverride ==
    /\ pc = "scalping_net"
    /\ trade_recommendation' =
           ScalpingRule(analysis_mode, risk_level, trade_recommendation)
    /\ pc' = "levels"
    /\ UNCHANGED <<analysis_mode, config, analysis_text, market_data,
                   market_bias, bias_strength, confidence,
                   risk_level, stop_loss, take_profit_1, take_profit_2,
                   result, raised, alert_in, alert_out>>
    /\ UNCHANGED others

ExtractLevels ==
    /\ pc = "levels"
    /\ stop_loss' = ExtractPrice(analysis_text.sl)
    /\ take_profit_1' = ExtractPrice(analysis_text.tp1)
    /\ take_profit_2' = ExtractPrice(analysis_text.tp2)
    /\ pc' = "stop_loss_net"
    /\ UNCHANGED <<analysis_mode, config, analysis_text, market_data,
                   market_bias, bias_strength, confidence,
                   trade_recommendation, risk_level,
                   result, raised, alert_in, alert_out>>
    /\ UNCHANGED others

StopLossOverride ==
    /\ pc = "stop_loss_net"
    /\ trade_recommendation' = StopLossRule(stop_loss, trade_recommendation)
    /\ pc' = "build"
    /\ UNCHANGED <<analysis_mode, config, analysis_text, market_data,
                   market_bias, bias_strength, confidence,
                   risk_level, stop_loss, take_profit_1, take_profit_2,
                   result, raised, alert_in, alert_out>>
    /\ UNCHANGED others

\* lines 496-531: read the snapshot and return the record
BuildRecord ==
    /\ pc = "build"
    /\ IF market_data # "snapshot"
       THEN Throw("AttributeError") /\ UNCHANGED result
       ELSE /\ result' = Some(SuccessRecord)
            /\ pc' = "done"
            /\ UNCHANGED raised
    /\ UNCHANGED <<analysis_mode, config, analysis_text, market_data,
                   locals, alert_in, alert_out>>
    /\ UNCHANGED others

\* lines 533-541: the except clause returns the failure record
ParseFailed ==
    /\ pc = "except"
    /\ result' = Some(FailureRecord)
    /\ pc' = "done"
    /\ UNCHANGED <<analysis_mode, config, analysis_text, market_data,
                   locals, raised, alert_in, alert_out>>
    /\ UNCHANGED others

\* the caller passes the returned record to should_alert (main.py:124)
AlertOnResult ==
    /\ pc = "done"
    /\ result # None
    /\ alert_in = None
    /\ alert_in' = result
    /\ alert_out' = should_alert(analysis_mode, config, result[1])
    /\ UNCHANGED <<analysis_mode, config, pc, analysis_text, market_data,
                   locals, result, raised>>
    /\ UNCHANGED others

\* should_alert is called with a record built elsewhere
AlertOnRecord(r) ==
    /\ pc = "idle"
    /\ alert_in' = Some(r)
    /\ alert_out' = should_alert(analysis_mode, config, r)
    /\ pc' = "alerted"
    /\ UNCHANGED <<analysis_mode, config, analysis_text, market_data,
                   locals, result, raised>>
    /\ UNCHANGED others

Next ==
    \/ pc = "idle" /\ \E text \in Texts, md \in MarketData : Call(text, md)
    \/ ExtractBias
    \/ ExtractStrength
    \/ ExtractConfidence
    \/ ExtractTrade
    \/ ConfidenceOverride
    \/ ExtractRisk
    \/ ScalpingOverride
    \/ ExtractLevels
    \/ StopLossOverride
    \/ BuildRecord
    \/ ParseFailed
    \/ AlertOnResult
    \/ Discard
    \/ pc = "idle" /\ \E r \in AnyRecords : AlertOnRecord(r)

Spec == Init /\ [][Next]_vars

SpecCfg == InitCfg /\ [][Next]_vars

\* the parser is not running: the state the other components start from
ParserIdle == config = ShippedConfig /\ InitRest /\ analysis_mode = "intraday"

----------------------------------------------------------------------------
(* Session classifier                                                      *)

InitSession ==
    /\ ParserIdle
    /\ NewsIdle
    /\ TasksIdle
    /\ AnalyzerIdle
    /\ NotifyIdle
    /\ LogIdle
    /\ OneKey
    /\ DocIdle
    /\ CycleIdle
    /\ program = "assistant"
    /\ utc_minute \in MinutesOfDay
    /\ session = ""

\* a caller asks for the session at the current time
GetTradingSession ==
    /\ session = ""
    /\ session' = get_trading_session(utc_minute)
    /\ UNCHANGED <<notSession, utc_minute>>

\* a minute passes
ClockTick ==
    /\ session # ""
    /\ utc_minute' = (utc_minute + 1) % (24 * 60)
    /\ session' = ""
    /\ UNCHANGED notSession

NextSession == GetTradingSession \/ ClockTick

SpecSession == InitSession /\ [][NextSession]_vars

----------------------------------------------------------------------------
(* The model response as one string.  A label or a word of the prompt's    *)
(* format is written as one element of the character sequence.             *)

Whitespace == {" ", "NL", "TAB"}

\* str.strip(chars) for a set of characters
PyStrip(s, chars) ==
    LET keep == {i \in 1..Len(s) : s[i] \notin chars}
    IN IF keep = {} THEN <<>>
       ELSE SubSeq(s, CHOOSE i \in keep : \A j \in keep : i <= j,
                      CHOOSE i \in keep : \A j \in keep : i >= j)

\* str.split('\n')
RECURSIVE SplitLines(_)
SplitLines(s) ==
    LET nl == {i \in 1..Len(s) : s[i] = "NL"}
    IN IF nl = {} THEN <<s>>
       ELSE LET i == CHOOSE x \in nl : \A y \in nl : x <= y
            IN <<SubSeq(s, 1, i - 1)>> \o SplitLines(SubSeq(s, i + 1, Len(s)))

\* least element of a non-empty set of positions
First(ps) == CHOOSE x \in ps : \A y \in ps : x <= y

\* the places of the text where a label stands
LabelAt(flat, label) == {p \in 1..Len(flat) : flat[p] = label}

\* what follows the label at place p, as a labelled line
Rest(flat, p) == Line("exact", SubSeq(flat, p + 1, Len(flat)))

\* re.search of a labelled pattern in the whole text: hits are the places
\* where the label stands and the pattern matches what follows; the match is
\* the leftmost one
Occurrence(flat, hits) ==
    IF hits = {} THEN None ELSE Rest(flat, First(hits))

\* the labelled lines the searches of parse_structured_output find
TextOf(flat) ==
    [kind |-> "text",
     bias |-> Occurrence(flat, {p \in LabelAt(flat, "Market Bias:") :
                 EnumSearch(Rest(flat, p), <<BULLISH, BEARISH, NEUTRAL>>) # None}),
     strength |-> Occurrence(flat, {p \in LabelAt(flat, "Bias Strength:") :
                 IntSearch(Rest(flat, p)) # None}),
     conf |-> Occurrence(flat, {p \in LabelAt(flat, "Confidence Score:") :
                 IntSearch(Rest(flat, p)) # None}),
     trade |-> Occurrence(flat, {p \in LabelAt(flat, "Trade Recommendation:") :
                 EnumSearch(Rest(flat, p), <<BUY, SELL, NO_TRADE>>) # None}),
     risk |-> Occurrence(flat, {p \in LabelAt(flat, "Risk Level:") :
                 EnumSearch(Rest(flat, p), <<LOW, MEDIUM, HIGH>>) # None}),
     sl |-> Occurrence(flat, {p \in LabelAt(flat, "Stop Loss:") :
                 PriceSearch(Rest(flat, p)) # None}),
     tp1 |-> Occurrence(flat, {p \in LabelAt(flat, "Take Profit 1:") :
                 PriceSearch(Rest(flat, p)) # None}),
     tp2 |-> Occurrence(flat, {p \in LabelAt(flat, "Take Profit 2:") :
                 PriceSearch(Rest(flat, p)) # None})]

\* line.strip('- ').strip()
StripBullet(line) == PyStrip(PyStrip(line, {"-", " "}), Whitespace)

\* line.strip().startswith('-')
IsBullet(line) ==
    LET t == PyStrip(line, Whitespace)
    IN t # <<>> /\ t[1] = "-"

\* the key factors of lines 486-490
ExtractKeyFactors(flat) ==
    LET ps == {p \in 1..Len(flat) : flat[p] = "Key Factors:"}
    IN IF ps = {} THEN <<>>
       ELSE LET p == First(ps)
                es == {q \in (p + 1)..Len(flat) : flat[q] = "Technical Setup:"}
                e == IF es = {} THEN Len(flat) + 1 ELSE First(es)
                factor_lines ==
                    SplitLines(PyStrip(SubSeq(flat, p + 1, e - 1), Whitespace))
                kept == SelectSeq(factor_lines, IsBullet)
            IN [i \in 1..Len(kept) |-> StripBullet(kept[i])]

NotSpecified == <<"N","o","t"," ","s","p","e","c","i","f","i","e","d">>

\* the invalidation of lines 493-494
ExtractInvalidation(flat) ==
    LET ps == {p \in 1..Len(flat) : flat[p] = "Invalidation:"}
    IN IF ps = {} THEN NotSpecified
       ELSE LET p == First(ps)
                es == {q \in (p + 1)..(Len(flat) - 2) :
                         flat[q] = "-" /\ flat[q + 1] = "-" /\ flat[q + 2] = "-"}
                e == IF es = {} THEN Len(flat) + 1 ELSE First(es)
            IN PyStrip(SubSeq(flat, p + 1, e - 1), Whitespace)

\* parse_structured_output of a string by an analyzer in the given mode, with
\* the clock at the given minute
parse_structured_output(mode, flat, minute) ==
    LET text == TextOf(flat)
        conf == ExtractConfidenceScore(text)
        risk == ExtractRiskLevel(text)
        sl == ExtractPrice(text.sl)
        rec == StopLossRule(sl,
                   ScalpingRule(mode, risk,
                       ConfidenceRule(conf, ExtractTradeRecommendation(text))))
    IN [success |-> TRUE,
        analysis_id |-> "analysis_id",
        timestamp |-> "now",
        analysis_mode |-> mode,
        session |-> get_trading_session(minute),
        market_bias |-> ExtractMarketBias(text),
        bias_strength |-> ExtractBiasStrength(text),
        trade_recommendation |-> rec,
        confidence |-> conf,
        risk_level |-> risk,
        stop_loss |-> sl,
        take_profit_1 |-> ExtractPrice(text.tp1),
        take_profit_2 |-> ExtractPrice(text.tp2),
        key_factors |-> ExtractKeyFactors(flat),
        invalidation |-> ExtractInvalidation(flat),
        full_analysis |-> flat]

----------------------------------------------------------------------------
(* Responses in the prompt's layout.  A response is a record of its        *)
(* sections, each <<>> when missing or the text after its label; framed    *)
(* says whether the start and end markers are written.                     *)

Section(label, content) ==
    IF content = None THEN <<>> ELSE <<label>> \o content[1] \o <<"NL">>

Marker(word) == <<"-","-","-", word, "-","-","-","NL">>

\* the string of a response, sections in the order of the prompt
Render(doc) ==
    (IF doc.framed THEN Marker("ANALYSIS START") ELSE <<>>)
    \o Section("Market Bias:", doc.bias)
    \o Section("Bias Strength:", doc.strength)
    \o Section("Trade Recommendation:", doc.trade)
    \o Section("Confidence Score:", doc.conf)
    \o Section("Key Factors:", doc.factors)
    \o Section("Technical Setup:", doc.setup)
    \o Section("Stop Loss:", doc.sl)
    \o Section("Take Profit 1:", doc.tp1)
    \o Section("Take Profit 2:", doc.tp2)
    \o Section("Risk Level:", doc.risk)
    \o Section("Invalidation:", doc.inval)
    \o (IF doc.framed THEN Marker("ANALYSIS END") ELSE <<>>)

\* a response that follows the prompt
FullDoc ==
    [framed |-> TRUE,
     bias |-> Some(<<" ","B","U","L","L","I","S","H">>),
     strength |-> Some(<<" ","7">>),
     trade |-> Some(<<" ","B","U","Y">>),
     conf |-> Some(<<" ","8">>),
     factors |-> Some(<<"NL","-"," ","a","NL","-"," ","b","NL">>),
     setup |-> Some(<<"NL","u","p","NL">>),
     sl |-> Some(<<" ","2","6","5","0",".","5">>),
     tp1 |-> Some(<<" ","2","6","7","0">>),
     tp2 |-> Some(<<" ","2","6","8","0">>),
     risk |-> Some(<<" ","L","O","W">>),
     inval |-> Some(<<"NL","b","r","e","a","k","NL">>)]

\* the empty response
EmptyDoc ==
    [framed |-> FALSE, bias |-> None, strength |-> None, trade |-> None,
     conf |-> None, factors |-> None, setup |-> None, sl |-> None,
     tp1 |-> None, tp2 |-> None, risk |-> None, inval |-> None]

\* the labelled fields whose presence or content is varied
ListedFields ==
    {"bias", "strength", "conf", "risk", "sl", "tp1", "tp2", "factors",
     "inval"}

\* Key Factors blocks: two bullets; a plain line between bullets; a factor
\* that starts with a minus sign and one that ends with a dash; a factor
\* that quotes another field
FactorBlocks ==
    { <<"NL","-"," ","a","NL","-"," ","b","NL">>,
      <<"NL","-"," ","a","NL","s","o","NL","-"," ","b","NL">>,
      <<"NL","-"," ","-","5","%","NL","-"," ","b"," ","-","NL">>,
      <<"NL","-"," ","a","NL","-"," ","Risk Level:"," ","H","I","G","H",
        " ","n","o","w","NL">> }

\* what a listed field may hold
Contents(f) ==
    {None} \cup
    CASE f = "bias" -> {FullDoc.bias}
      [] f = "strength" -> {FullDoc.strength, Some(<<" ","-","5">>)}
      [] f = "conf" -> {FullDoc.conf}
      [] f = "risk" -> {FullDoc.risk}
      [] f = "sl" -> {FullDoc.sl}
      [] f = "tp1" -> {FullDoc.tp1}
      [] f = "tp2" -> {FullDoc.tp2}
      [] f = "factors" -> {Some(b) : b \in FactorBlocks}
      [] f = "inval" -> {FullDoc.inval}

\* the responses that differ from doc in one listed field
Variants(doc) ==
    UNION {{[doc EXCEPT ![f] = c] : c \in Contents(f)} : f \in ListedFields}
    \ {doc}

BaseDocs == {FullDoc, EmptyDoc} \cup Variants(FullDoc)

\* the fields in which two responses differ
Differing(a, b) == {f \in DOMAIN a : a[f] # b[f]}

ClockSamples == {0, 600}

\* the key of the record that holds a listed field
RecordKey(f) ==
    CASE f = "bias" -> "market_bias"
      [] f = "strength" -> "bias_strength"
      [] f = "conf" -> "confidence"
      [] f = "risk" -> "risk_level"
      [] f = "sl" -> "stop_loss"
      [] f = "tp1" -> "take_profit_1"
      [] f = "tp2" -> "take_profit_2"
      [] f = "factors" -> "key_factors"
      [] f = "inval" -> "invalidation"

\* the value a listed field takes when its line is missing
DefaultOf(f) ==
    CASE f = "bias" -> NEUTRAL
      [] f = "strength" -> 5
      [] f = "conf" -> 0
      [] f = "risk" -> HIGH
      [] f \in {"sl", "tp1", "tp2"} -> None
      [] f = "factors" -> <<>>
      [] f = "inval" -> NotSpecified

\* a list of factors written as a Key Factors block, one bullet per line
RECURSIVE Rebullet(_)
Rebullet(items) ==
    IF items = <<>> THEN <<"NL">>
    ELSE <<"NL", "-", " ">> \o Head(items) \o Rebullet(Tail(items))

InitDoc ==
    /\ ParserIdle
    /\ NewsIdle
    /\ TasksIdle
    /\ AnalyzerIdle
    /\ NotifyIdle
    /\ LogIdle
    /\ OneKey
    /\ CycleIdle
    /\ program = "assistant"
    /\ session = ""
    /\ utc_minute \in ClockSamples
    /\ doc_a \in BaseDocs
    /\ doc_b \in Variants(doc_a)
    /\ rec_a = None
    /\ rec_b = None

\* the analyzer parses the first response
ParseDocA ==
    /\ rec_a = None
    /\ rec_a' = Some(parse_structured_output(analysis_mode, Render(doc_a),
                                             utc_minute))
    /\ UNCHANGED <<notDoc, utc_minute, doc_a, doc_b, rec_b>>

\* the analyzer parses the second response
ParseDocB ==
    /\ rec_b = None
    /\ rec_b' = Some(parse_structured_output(analysis_mode, Render(doc_b),
                                             utc_minute))
    /\ UNCHANGED <<notDoc, utc_minute, doc_a, doc_b, rec_a>>

NextDoc == ParseDocA \/ ParseDocB

SpecDoc == InitDoc /\ [][NextDoc]_vars

----------------------------------------------------------------------------
(* The analysis cycles: TradingAssistant.run_analysis (main.py) and        *)
(* UnifiedTradingBot.automatic_analysis (main_bot.py).  A cycle is a       *)
(* sequence of steps; events collects what the current cycle has done:     *)
(*   "collect"  get_market_data was called                                 *)
(*   "model"    analyze_market was called                                  *)
(*   "save_market_data", "log_analysis", "log_performance"  logger calls   *)
(*   "signal", "error", "info"  notifications sent                         *)
(*   "record"   the write of log_analysis went through                     *)
(*   "no_alert" should_alert returned False                                *)

SAVE_MARKET_DATA == TRUE
LOG_ALL_ANALYSES == TRUE

MaxRuns == 2
MaxSkipped == 2
MaxTime == 2

\* what the collector returns: a snapshot, nothing, or one without a price
Snapshots == {"ok", "none", "no_price"}

\* what analyze_market returns: a failed record or a recommendation
Analyses == {"failed", "BUY", "SELL", "NO TRADE"}

\* what a step of a cycle can raise
Raisable == {"Exception", "KeyboardInterrupt"}

\* what log_analysis adds to the events of a cycle; it catches its own
\* exceptions and the cycles do not look at what it returns
Logs(written) ==
    IF written THEN {"log_analysis", "record"} ELSE {"log_analysis"}

\* mutant: the signal is sent whatever should_alert returned
AfterGateAlways(alert) == "signal"

\* if should_alert: ... else: ...
AfterGate(alert) == IF alert THEN "signal" ELSE "summary"

\* mutant: the busy flag is never seen set
BusyNever(flag) == FALSE

\* the test of the busy flag at the entry of a cycle
Busy(flag) == flag

\* mutant: the finally clause leaves the flag as it is
FinallyKeeps(flag) == flag

\* the finally clause of a cycle: the flag is cleared
Finally(flag) == FALSE

InitCycle ==
    /\ ParserIdle
    /\ NewsIdle
    /\ TasksIdle
    /\ AnalyzerIdle
    /\ NotifyIdle
    /\ LogIdle
    /\ OneKey
    /\ SessionIdle
    /\ DocIdle
    /\ CycleIdle
    /\ program \in {"assistant", "bot"}

\* time passes
Tick ==
    /\ now < MaxTime
    /\ now' = now + 1
    /\ UNCHANGED <<program, assistantVars, botVars, cycle_pc, cycle_analysis,
                   events, ended, escaped, skipped>>
    /\ UNCHANGED notCycle

\* run_analysis is triggered while a cycle is in flight
RunAnalysisSkip ==
    /\ program = "assistant"
    /\ cycle_pc # "stopped"
    /\ Busy(is_running)
    /\ skipped < MaxSkipped
    /\ skipped' = skipped + 1
    /\ UNCHANGED <<program, assistantVars, botVars, cycle_pc, cycle_analysis,
                   events, ended, escaped, now>>
    /\ UNCHANGED notCycle

\* run_analysis is triggered and starts a cycle
RunAnalysisStart ==
    /\ program = "assistant"
    /\ cycle_pc # "stopped"
    /\ ~Busy(is_running)
    /\ run_count < MaxRuns
    /\ is_running' = TRUE
    /\ run_count' = run_count + 1
    /\ last_run_time' = Some(now)
    /\ cycle_pc' = "hours"
    /\ cycle_analysis' = "none"
    /\ events' = {}
    /\ ended' = ""
    /\ UNCHANGED <<program, botVars, escaped, skipped, now>>
    /\ UNCHANGED notCycle

\* a return of run_analysis from inside the try block
AssistantReturn(how, flag, done) ==
    /\ is_running' = Finally(flag)
    /\ cycle_pc' = "idle"
    /\ ended' = how
    /\ events' = events \cup done
    /\ UNCHANGED <<program, run_count, last_run_time, botVars, escaped,
                   skipped, now>>
    /\ UNCHANGED notCycle

\* a step of run_analysis that goes on to the next step
AssistantStep(next, done) ==
    /\ cycle_pc' = next
    /\ events' = events \cup done
    /\ UNCHANGED <<program, assistantVars, botVars, ended, escaped, skipped,
                   now>>
    /\ UNCHANGED notCycle

\* the trading-hours check
CheckTradingHours(open) ==
    /\ program = "assistant"
    /\ cycle_pc = "hours"
    /\ UNCHANGED cycle_analysis
    /\ IF open THEN AssistantStep("collect", {})
       ELSE AssistantReturn("closed", FALSE, {"info"})

\* step 1: the collector is asked for a snapshot
CollectMarketData(snapshot) ==
    /\ program = "assistant"
    /\ cycle_pc = "collect"
    /\ UNCHANGED cycle_analysis
    /\ IF snapshot = "ok" THEN AssistantStep("save", {"collect"})
       ELSE AssistantReturn("no_data", FALSE, {"collect", "error"})

\* step 2: the snapshot is saved
SaveMarketData ==
    /\ program = "assistant"
    /\ cycle_pc = "save"
    /\ UNCHANGED cycle_analysis
    /\ AssistantStep("analyze",
           IF SAVE_MARKET_DATA THEN {"save_market_data"} ELSE {})

\* step 3: the model is asked for an analysis
AnalyzeMarket(a) ==
    /\ program = "assistant"
    /\ cycle_pc = "analyze"
    /\ cycle_analysis' = a
    /\ IF a # "failed" THEN AssistantStep("log", {"model"})
       ELSE AssistantReturn("failed", FALSE, {"model", "error"})

\* step 4: the analysis is logged
LogAnalysis(written) ==
    /\ program = "assistant"
    /\ cycle_pc = "log"
    /\ UNCHANGED cycle_analysis
    /\ AssistantStep("gate",
           IF LOG_ALL_ANALYSES \/ cycle_analysis # "NO TRADE"
           THEN Logs(written) ELSE {})

\* step 5: the alert gate
CheckAlert(alert) ==
    /\ program = "assistant"
    /\ cycle_pc = "gate"
    /\ alert => cycle_analysis # "NO TRADE"
    /\ UNCHANGED cycle_analysis
    /\ AssistantStep(AfterGate(alert), IF alert THEN {} ELSE {"no_alert"})

\* self.notifier.send_alert(analysis, alert_type='signal')
SendSignal ==
    /\ program = "assistant"
    /\ cycle_pc = "signal"
    /\ UNCHANGED cycle_analysis
    /\ AssistantStep("performance", {"signal"})

\* self.logger.log_performance(analysis, outcome='pending')
LogPerformance ==
    /\ program = "assistant"
    /\ cycle_pc = "performance"
    /\ UNCHANGED cycle_analysis
    /\ AssistantStep("summary", {"log_performance"})

\* the summary is printed and the cycle completes
Summary ==
    /\ program = "assistant"
    /\ cycle_pc = "summary"
    /\ UNCHANGED cycle_analysis
    /\ AssistantReturn("complete", is_running, {})

\* a step of the try block raises
AssistantRaise(exc) ==
    /\ program = "assistant"
    /\ cycle_pc \notin {"idle", "stopped"}
    /\ is_running' = Finally(is_running)
    /\ IF exc = "KeyboardInterrupt"
       THEN /\ escaped' = exc
            /\ cycle_pc' = "stopped"
            /\ ended' = "interrupt"
            /\ UNCHANGED events
       ELSE /\ events' = events \cup {"error"}
            /\ cycle_pc' = "idle"
            /\ ended' = "exception"
            /\ UNCHANGED escaped
    /\ UNCHANGED <<program, run_count, last_run_time, botVars,
                   cycle_analysis, skipped, now>>
    /\ UNCHANGED notCycle

\* automatic_analysis is triggered with the automatic mode switched off or
\* outside trading hours
AutomaticAnalysisOff(enabled, open) ==
    /\ program = "bot"
    /\ cycle_pc = "idle"
    /\ ~enabled \/ ~open
    /\ ended' = "closed"
    /\ UNCHANGED <<program, assistantVars, botVars, cycle_pc, cycle_analysis,
                   events, escaped, skipped, now>>
    /\ UNCHANGED notCycle

\* automatic_analysis is triggered while an analysis is in flight
AutomaticAnalysisSkip ==
    /\ program = "bot"
    /\ cycle_pc # "stopped"
    /\ Busy(is_analyzing)
    /\ skipped < MaxSkipped
    /\ skipped' = skipped + 1
    /\ UNCHANGED <<program, assistantVars, botVars, cycle_pc, cycle_analysis,
                   events, ended, escaped, now>>
    /\ UNCHANGED notCycle

\* automatic_analysis is triggered and starts a cycle
AutomaticAnalysisStart ==
    /\ program = "bot"
    /\ cycle_pc # "stopped"
    /\ ~Busy(is_analyzing)
    /\ total_auto_runs < MaxRuns
    /\ is_analyzing' = TRUE
    /\ total_auto_runs' = total_auto_runs + 1
    /\ last_auto_run' = Some(now)
    /\ cycle_pc' = "collect"
    /\ cycle_analysis' = "none"
    /\ events' = {}
    /\ ended' = ""
    /\ UNCHANGED <<program, assistantVars, escaped, skipped, now>>
    /\ UNCHANGED notCycle

\* a return of automatic_analysis from inside the try block
BotReturn(how, done) ==
    /\ is_analyzing' = Finally(is_analyzing)
    /\ cycle_pc' = "idle"
    /\ ended' = how
    /\ events' = events \cup done
    /\ UNCHANGED <<program, assistantVars, total_auto_runs, last_auto_run,
                   escaped, skipped, now>>
    /\ UNCHANGED notCycle

\* a step of automatic_analysis that goes on to the next step
BotStep(next, done) ==
    /\ cycle_pc' = next
    /\ events' = events \cup done
    /\ UNCHANGED <<program, assistantVars, botVars, ended, escaped, skipped,
                   now>>
    /\ UNCHANGED notCycle

\* the bot asks the collector for a snapshot
BotCollect(snapshot) ==
    /\ program = "bot"
    /\ cycle_pc = "collect"
    /\ UNCHANGED cycle_analysis
    /\ IF snapshot = "ok" THEN BotStep("analyze", {"collect"})
       ELSE BotReturn("no_data", {"collect"})

\* the bot asks the model for an analysis
BotAnalyze(a) ==
    /\ program = "bot"
    /\ cycle_pc = "analyze"
    /\ cycle_analysis' = a
    /\ IF a # "failed" THEN BotStep("log", {"model"})
       ELSE BotReturn("failed", {"model"})

\* the bot logs the analysis and saves the snapshot
BotLog(written) ==
    /\ program = "bot"
    /\ cycle_pc = "log"
    /\ UNCHANGED cycle_analysis
    /\ BotStep("gate",
           Logs(written) \cup
           (IF SAVE_MARKET_DATA THEN {"save_market_data"} ELSE {}))

\* the bot's alert gate
BotCheckAlert(alert) ==
    /\ program = "bot"
    /\ cycle_pc = "gate"
    /\ alert => cycle_analysis # "NO TRADE"
    /\ UNCHANGED cycle_analysis
    /\ BotStep(AfterGate(alert), IF alert THEN {} ELSE {"no_alert"})

\* await self.send_telegram_alert(analysis, is_auto=True)
BotSendAlert ==
    /\ program = "bot"
    /\ cycle_pc = "signal"
    /\ UNCHANGED cycle_analysis
    /\ BotStep("performance", {"signal"})

\* self.logger.log_performance(analysis, outcome='pending')
BotLogPerformance ==
    /\ program = "bot"
    /\ cycle_pc = "performance"
    /\ UNCHANGED cycle_analysis
    /\ BotStep("summary", {"log_performance"})

\* the bot prints the summary and the cycle completes
BotSummary ==
    /\ program = "bot"
    /\ cycle_pc = "summary"
    /\ UNCHANGED cycle_analysis
    /\ BotReturn("complete", {})

\* a step of the bot's try block raises
BotRaise(exc) ==
    /\ program = "bot"
    /\ cycle_pc \notin {"idle", "stopped"}
    /\ is_analyzing' = Finally(is_analyzing)
    /\ IF exc = "KeyboardInterrupt"
       THEN /\ escaped' = exc
            /\ cycle_pc' = "stopped"
            /\ ended' = "interrupt"
       ELSE /\ cycle_pc' = "idle"
            /\ ended' = "exception"
            /\ UNCHANGED escaped
    /\ UNCHANGED <<program, assistantVars, total_auto_runs, last_auto_run,
                   cycle_analysis, events, skipped, now>>
    /\ UNCHANGED notCycle

NextCycle ==
    \/ Tick
    \/ RunAnalysisSkip
    \/ RunAnalysisStart
    \/ \E open \in BOOLEAN : CheckTradingHours(open)
    \/ \E snapshot \in Snapshots : CollectMarketData(snapshot)
    \/ SaveMarketData
    \/ \E a \in Analyses : AnalyzeMarket(a)
    \/ \E written \in BOOLEAN : LogAnalysis(written)
    \/ \E alert \in BOOLEAN : CheckAlert(alert)
    \/ SendSignal
    \/ LogPerformance
    \/ Summary
    \/ \E exc \in Raisable : AssistantRaise(exc)
    \/ \E enabled, open \in BOOLEAN : AutomaticAnalysisOff(enabled, open)
    \/ AutomaticAnalysisSkip
    \/ AutomaticAnalysisStart
    \/ \E snapshot \in Snapshots : BotCollect(snapshot)
    \/ \E a \in Analyses : BotAnalyze(a)
    \/ \E written \in BOOLEAN : BotLog(written)
    \/ \E alert \in BOOLEAN : BotCheckAlert(alert)
    \/ BotSendAlert
    \/ BotLogPerformance
    \/ BotSummary
    \/ \E exc \in Raisable : BotRaise(exc)

SpecCycle == InitCycle /\ [][NextCycle]_vars

----------------------------------------------------------------------------
(* analyze_market: the retry loop over the API keys                        *)

MaxKeys == 3
MaxAnalyses == 2
MaxRotations == 2

\* the key lists an analyzer can be built with
KeyLists == {[i \in 1..n |-> i] : n \in 1..MaxKeys}

\* what one request to the model ends in: a response that parses, a
\* response that does not, a quota or rate-limit error, another error
Outcomes == {"parsed", "unparsed", "quota", "other"}

\* mutant: one attempt more than there are keys
max_attempts_more(keys) == Len(keys) + 1

\* max_attempts of line 391
max_attempts(keys) == IF Len(keys) > 0 THEN Len(keys) ELSE 1

\* the failure record of lines 427-432
ErrorRecord(err) == [success |-> FALSE, error |-> err]

InitRetry ==
    /\ ParserIdle
    /\ NewsIdle
    /\ TasksIdle
    /\ AnalyzerIdle
    /\ NotifyIdle
    /\ LogIdle
    /\ SessionIdle
    /\ DocIdle
    /\ CycleIdle
    /\ program = "assistant"
    /\ RetryIdle
    /\ api_keys \in KeyLists

\* analyze_market is called: lines 380-394
AnalyzeMarketCall ==
    /\ retry_pc = "idle"
    /\ analysis_count < MaxAnalyses
    /\ analysis_count' = analysis_count + 1
    /\ attempt' = 0
    /\ last_error' = ""
    /\ calls' = 0
    /\ keys_used' = {}
    /\ structured' = None
    /\ retry_pc' = "try"
    /\ UNCHANGED <<api_keys, current_key_index, rotated>>
    /\ UNCHANGED notRetry

\* one pass of the try block: the request and the parse of the response
GenerateContent(outcome) ==
    /\ retry_pc = "try"
    /\ attempt < max_attempts(api_keys)
    /\ calls' = calls + 1
    /\ keys_used' = keys_used \cup {current_key_index}
    /\ IF outcome \in {"parsed", "unparsed"}
       THEN /\ structured' = Some(IF outcome = "parsed"
                                   THEN [success |-> TRUE]
                                   ELSE ErrorRecord("Parsing failed"))
            /\ retry_pc' = "done"
            /\ UNCHANGED last_error
       ELSE /\ last_error' = outcome
            /\ retry_pc' = "except"
            /\ UNCHANGED structured
    /\ UNCHANGED <<api_keys, current_key_index, analysis_count, attempt,
                   rotated>>
    /\ UNCHANGED notRetry

\* mutant: the rotation stays on the key
same_key(keys, index) == index

\* the index _rotate_api_key moves to: line 368
next_key(keys, index) == (index + 1) % Len(keys)

\* _rotate_api_key: what it returns and the index it leaves
rotate_api_key(keys, index) ==
    IF Len(keys) <= 1
    THEN [returned |-> FALSE, index |-> index]
    ELSE [returned |-> TRUE, index |-> next_key(keys, index)]

\* the except clause: a quota error and an attempt left: _rotate_api_key is
\* called, and the loop continues when it returns True
RotateAndRetry ==
    /\ retry_pc = "except"
    /\ last_error = "quota"
    /\ attempt < max_attempts(api_keys) - 1
    /\ rotate_api_key(api_keys, current_key_index).returned
    /\ current_key_index' = rotate_api_key(api_keys, current_key_index).index
    /\ rotated' = [calls |-> rotated.calls + 1, returned |-> TRUE]
    /\ attempt' = attempt + 1
    /\ retry_pc' = "try"
    /\ UNCHANGED <<api_keys, analysis_count, last_error, calls, keys_used,
                   structured>>
    /\ UNCHANGED notRetry

\* _rotate_api_key is called between two analyses
RotateApiKey ==
    /\ retry_pc = "idle"
    /\ rotated.calls < MaxRotations
    /\ current_key_index' = rotate_api_key(api_keys, current_key_index).index
    /\ rotated' = [calls |-> rotated.calls + 1,
                   returned |->
                       rotate_api_key(api_keys, current_key_index).returned]
    /\ UNCHANGED <<api_keys, analysis_count, retry_pc, attempt, last_error,
                   calls, keys_used, structured>>
    /\ UNCHANGED notRetry

\* the except clause: any other case leaves the loop with the failure record
GiveUp ==
    /\ retry_pc = "except"
    /\ ~ /\ last_error = "quota"
         /\ attempt < max_attempts(api_keys) - 1
         /\ rotate_api_key(api_keys, current_key_index).returned
    /\ rotated' = IF last_error = "quota"
                      /\ attempt < max_attempts(api_keys) - 1
                   THEN [calls |-> rotated.calls + 1, returned |-> FALSE]
                   ELSE rotated
    /\ structured' = Some(ErrorRecord(last_error))
    /\ retry_pc' = "done"
    /\ UNCHANGED <<api_keys, current_key_index, analysis_count, attempt,
                   last_error, calls, keys_used>>
    /\ UNCHANGED notRetry

\* the caller has taken the record
AnalyzeMarketDone ==
    /\ retry_pc = "done"
    /\ retry_pc' = "idle"
    /\ UNCHANGED <<api_keys, current_key_index, analysis_count, attempt,
                   last_error, calls, keys_used, structured, rotated>>
    /\ UNCHANGED notRetry

NextRetry ==
    \/ AnalyzeMarketCall
    \/ \E outcome \in Outcomes : GenerateContent(outcome)
    \/ RotateAndRetry
    \/ RotateApiKey
    \/ GiveUp
    \/ AnalyzeMarketDone

SpecRetry == InitRetry /\ [][NextRetry]_vars

----------------------------------------------------------------------------
(* TradingLogger: the three stored lists (src/logger.py).  A file is       *)
(* [kind |-> "missing"], [kind |-> "garbled"] (it exists and cannot be     *)
(* decoded) or [kind |-> "list", data |-> the stored entries].  An entry   *)
(* is written as a number: the entries stored before the first call are    *)
(* 1, 2, ... and the entries of the calls are numbered from FirstNewEntry. *)

LOG_KEEP == 500
PERFORMANCE_KEEP == 200
MARKET_DATA_KEEP == 1000

MaxAppends == 2

FirstNewEntry == MARKET_DATA_KEEP + 1

MissingFile == [kind |-> "missing"]
GarbledFile == [kind |-> "garbled"]
ListFile(data) == [kind |-> "list", data |-> data]

\* mutant: the first n entries are kept
FirstN(s, n) == IF Len(s) > n THEN SubSeq(s, 1, n) ELSE s

\* if len(s) > n: s = s[-n:]
LastN(s, n) == IF Len(s) > n THEN SubSeq(s, Len(s) - n + 1, Len(s)) ELSE s

\* load_json(filepath, default=[]): the stored list, or the default when the
\* file is missing, cannot be read (read_ok is false) or cannot be decoded
load_json(file, read_ok) ==
    IF file.kind = "list" /\ read_ok THEN file.data ELSE <<>>

\* what a write can end in: done, open() fails, json.dump fails half way
Writes == {"ok", "open_fails", "dump_fails"}

\* save_json(filepath, data): the file afterwards
save_json(file, data, write) ==
    CASE write = "ok" -> ListFile(data)
      [] write = "open_fails" -> file
      [] write = "dump_fails" -> GarbledFile

\* the body shared by log_analysis, log_performance and save_market_data:
\* load, append, cut to the last keep entries, save
Logged(file, entry, keep, read_ok, write) ==
    save_json(file, LastN(load_json(file, read_ok) \o <<entry>>, keep), write)

\* the states a file of the logger can be in when a call starts
Stored(keep) ==
    { MissingFile, GarbledFile,
      ListFile([i \in 1..(keep - 1) |-> i]),
      ListFile([i \in 1..keep |-> i]) }

InitLog ==
    /\ ParserIdle
    /\ NewsIdle
    /\ TasksIdle
    /\ AnalyzerIdle
    /\ NotifyIdle
    /\ SessionIdle
    /\ DocIdle
    /\ CycleIdle
    /\ program = "assistant"
    /\ OneKey
    /\ log_file \in Stored(LOG_KEEP)
    /\ perf_file \in Stored(PERFORMANCE_KEEP)
    /\ market_file \in Stored(MARKET_DATA_KEEP)
    /\ appended = 0
    /\ log_call = <<>>

\* what a call leaves behind for the properties to look at
CallRecord(fn, file, read_ok, write) ==
    Some([fn |-> fn, before |-> file, entry |-> FirstNewEntry + appended,
          read_ok |-> read_ok, write |-> write, returned |-> TRUE])

\* log_analysis(analysis, market_data)
LogAnalysisCall(read_ok, write) ==
    /\ appended < MaxAppends
    /\ log_file' = Logged(log_file, FirstNewEntry + appended, LOG_KEEP,
                          read_ok, write)
    /\ log_call' = CallRecord("log_analysis", log_file, read_ok, write)
    /\ appended' = appended + 1
    /\ UNCHANGED <<perf_file, market_file>>
    /\ UNCHANGED notLog

\* log_performance(analysis, outcome)
LogPerformanceCall(read_ok, write) ==
    /\ appended < MaxAppends
    /\ perf_file' = Logged(perf_file, FirstNewEntry + appended,
                           PERFORMANCE_KEEP, read_ok, write)
    /\ log_call' = CallRecord("log_performance", perf_file, read_ok, write)
    /\ appended' = appended + 1
    /\ UNCHANGED <<log_file, market_file>>
    /\ UNCHANGED notLog

\* save_market_data(market_data), with SAVE_MARKET_DATA on
SaveMarketDataCall(read_ok, write) ==
    /\ SAVE_MARKET_DATA
    /\ appended < MaxAppends
    /\ market_file' = Logged(market_file, FirstNewEntry + appended,
                             MARKET_DATA_KEEP, read_ok, write)
    /\ log_call' = CallRecord("save_market_data", market_file, read_ok, write)
    /\ appended' = appended + 1
    /\ UNCHANGED <<log_file, perf_file>>
    /\ UNCHANGED notLog

\* the file a logger function stores into, and its retention bound
FileOf(fn) ==
    CASE fn = "log_analysis" -> log_file
      [] fn = "log_performance" -> perf_file
      [] fn = "save_market_data" -> market_file

KeepOf(fn) ==
    CASE fn = "log_analysis" -> LOG_KEEP
      [] fn = "log_performance" -> PERFORMANCE_KEEP
      [] fn = "save_market_data" -> MARKET_DATA_KEEP

NextLog ==
    \/ \E read_ok \in BOOLEAN, write \in Writes :
          LogAnalysisCall(read_ok, write)
    \/ \E read_ok \in BOOLEAN, write \in Writes :
          LogPerformanceCall(read_ok, write)
    \/ \E read_ok \in BOOLEAN, write \in Writes :
          SaveMarketDataCall(read_ok, write)

SpecLog == InitLog /\ [][NextLog]_vars

----------------------------------------------------------------------------
(* Notifier.send_alert (src/notifier.py).  The channels are tried in the   *)
(* order console, file, email, telegram.  A send function runs its body    *)
(* in a try block and reports a failure with print in its except block;    *)
(* what a send function ends in is                                         *)
(*   "sent"      the body ran to its end, the function returns True        *)
(*   "failed"    the body raised, the report was printed, it returns False *)
(*   "rejected"  Telegram answered with another status than 200: False     *)
(*   "escaped"   the body raised and the print of the except block raised  *)
(*               as well (standard output closed, or a pipe with no        *)
(*               reader): the exception leaves the send function           *)
(* format_signal_alert and format_error_alert are taken to return.         *)
MaxAlerts == 2

Channels == <<"console", "file", "email", "telegram">>

ChannelSet == {Channels[i] : i \in 1..Len(Channels)}

Deliveries == {"sent", "failed", "escaped"}

\* the channel tried after Channels[i], "returned" after the last
After(c) ==
    CASE c = "console" -> "file"
      [] c = "file" -> "email"
      [] c = "email" -> "telegram"
      [] c = "telegram" -> "returned"

\* what a send function hands back to send_alert
SendResult(delivery) ==
    CASE delivery = "sent" -> "True"
      [] delivery \in {"failed", "rejected"} -> "False"
      [] delivery = "escaped" -> "raise"

\* Notifier(): ALERT_METHODS without the channels that are switched off
InitNotify ==
    /\ ParserIdle
    /\ NewsIdle
    /\ TasksIdle
    /\ AnalyzerIdle
    /\ SessionIdle
    /\ DocIdle
    /\ CycleIdle
    /\ program = "assistant"
    /\ OneKey
    /\ LogIdle
    /\ enabled_methods \in SUBSET ChannelSet
    /\ notification_count = 0
    /\ alert_pc = "idle"
    /\ results = [c \in ChannelSet |-> "unset"]
    /\ attempts = [c \in ChannelSet |-> 0]

\* send_alert up to the first channel: count the notification, format
\* the message, results = {}
SendAlert ==
    /\ alert_pc \in {"idle", "returned", "raised"}
    /\ notification_count < MaxAlerts
    /\ notification_count' = notification_count + 1
    /\ results' = [c \in ChannelSet |-> "unset"]
    /\ attempts' = [c \in ChannelSet |-> 0]
    /\ alert_pc' = "console"
    /\ UNCHANGED enabled_methods
    /\ UNCHANGED notNotify

\* if c in self.enabled_methods: results[c] = self.send_c(message, subject)
Channel(c, delivery) ==
    /\ alert_pc = c
    /\ IF c \in enabled_methods
       THEN /\ attempts' = [attempts EXCEPT ![c] = @ + 1]
            /\ IF SendResult(delivery) = "raise"
               THEN alert_pc' = "raised" /\ UNCHANGED results
               ELSE /\ results' = [results EXCEPT ![c] = SendResult(delivery)]
                    /\ alert_pc' = After(c)
       ELSE /\ alert_pc' = After(c)
            /\ UNCHANGED <<results, attempts>>
    /\ UNCHANGED <<enabled_methods, notification_count>>
    /\ UNCHANGED notNotify

SendConsole(delivery) == Channel("console", delivery)

SendFile(delivery) == Channel("file", delivery)

SendEmail(delivery) == Channel("email", delivery)

SendTelegram(delivery) == Channel("telegram", delivery)

NextNotify ==
    \/ SendAlert
    \/ \E delivery \in Deliveries : SendConsole(delivery)
    \/ \E delivery \in Deliveries : SendFile(delivery)
    \/ \E delivery \in Deliveries : SendEmail(delivery)
    \/ \E delivery \in Deliveries \cup {"rejected"} : SendTelegram(delivery)

SpecNotify == InitNotify /\ [][NextNotify]_vars

----------------------------------------------------------------------------
(* MarketAnalyzer(analysis_mode='intraday', timeframe='M15') and the       *)
(* analysis_id of analyze_market.  An argument that the caller leaves out  *)
(* is NotGiven.  An id f"{mode}_{count}_{seconds}" is written as the       *)
(* sequence <<mode, count, seconds>> and f"error_{count}" as               *)
(* <<"error", count>>.                                                     *)

MaxBuilt == 2
MaxIds == 2
MaxSeconds == 1

NotGiven == "not given"

Timeframes == {"M1", "M3", "M5", "M15", "M30", "H1", "H4", "D1"}

\* the timeframes a caller can pass: the eight of the bots' commands, two
\* in small letters and one that is none of the eight
TimeframeArgs == Timeframes \cup {"m15", "h1", "W1", NotGiven}

\* the modes a caller can pass: the four names, one in capitals, another word
ModeArgs == Modes \cup {"SCALPING", "auto", NotGiven}

\* timeframe.upper()
UpperName(s) ==
    CASE s = "m15" -> "M15"
      [] s = "h1" -> "H1"
      [] OTHER -> s

\* mode.lower()
LowerName(s) ==
    CASE s = "SCALPING" -> "scalping"
      [] OTHER -> s

\* _determine_mode(mode, timeframe)
determine_mode(mode_name, timeframe) ==
    IF LowerName(mode_name) \in
          {"ultra_scalping", "scalping", "intraday", "swing"}
    THEN LowerName(mode_name)
    ELSE IF timeframe \in {"M1", "M3", "M5"} THEN "ultra_scalping"
    ELSE IF timeframe \in {"M15", "M30"} THEN "scalping"
    ELSE IF timeframe \in {"H1", "H4"} THEN "intraday"
    ELSE IF timeframe \in {"D1"} THEN "swing"
    ELSE "intraday"

\* the parameter defaults of __init__
WithDefaults(mode_arg, tf_arg) ==
    [analysis_mode |-> IF mode_arg = NotGiven THEN "intraday" ELSE mode_arg,
     timeframe |-> IF tf_arg = NotGiven THEN "M15" ELSE tf_arg]

\* MarketAnalyzer.__init__
MarketAnalyzer(mode_arg, tf_arg) ==
    [analysis_mode |->
         determine_mode(WithDefaults(mode_arg, tf_arg).analysis_mode,
                        UpperName(WithDefaults(mode_arg, tf_arg).timeframe)),
     timeframe |-> UpperName(WithDefaults(mode_arg, tf_arg).timeframe),
     analysis_count |-> 0]

InitBuild ==
    /\ ParserIdle
    /\ NewsIdle
    /\ TasksIdle
    /\ SessionIdle
    /\ DocIdle
    /\ CycleIdle
    /\ program = "assistant"
    /\ OneKey
    /\ LogIdle
    /\ NotifyIdle
    /\ analyzer = None
    /\ built_with = None
    /\ built = 0
    /\ epoch = 0
    /\ issued = <<>>

\* an analyzer is built
Build(mode_arg, tf_arg) ==
    /\ built < MaxBuilt
    /\ built' = built + 1
    /\ analyzer' = Some(MarketAnalyzer(mode_arg, tf_arg))
    /\ built_with' = Some([analysis_mode |-> mode_arg, timeframe |-> tf_arg])
    /\ UNCHANGED <<epoch, issued>>
    /\ UNCHANGED notAnalyzer

NextBuild == \E mode_arg \in ModeArgs, tf_arg \in TimeframeArgs :
                Build(mode_arg, tf_arg)

SpecBuild == InitBuild /\ [][NextBuild]_vars

\* TradingAssistant.__init__: MarketAnalyzer(analysis_mode=analysis_mode)
AssistantBuilds(mode_arg) == Build(mode_arg, NotGiven)

\* the bots, for every analysis: MarketAnalyzer(timeframe=timeframe)
BotBuilds(tf_arg) == Build(NotGiven, tf_arg)

\* the analysis_id of lines 381 and 431
AnalysisId(a, success, seconds) ==
    IF success THEN <<a.analysis_mode, a.analysis_count, seconds>>
    ELSE <<"error", a.analysis_count>>

\* analyze_market, from the call to the returned record: the record has
\* the id of line 381 when a response came (parsed or not), and the id of
\* line 431 when the request failed
AnalyzeMarketId(answered) ==
    /\ analyzer # None
    /\ Len(issued) < MaxIds
    /\ analyzer' = Some([analyzer[1] EXCEPT !.analysis_count = @ + 1])
    /\ issued' = Append(issued,
                        [analyzer |-> built,
                         id |-> AnalysisId(analyzer'[1], answered, epoch)])
    /\ UNCHANGED <<built_with, built, epoch>>
    /\ UNCHANGED notAnalyzer

\* a second passes
SecondPasses ==
    /\ epoch < MaxSeconds
    /\ epoch' = epoch + 1
    /\ UNCHANGED <<analyzer, built_with, built, issued>>
    /\ UNCHANGED notAnalyzer

NextIds ==
    \/ \E mode_arg \in Modes : AssistantBuilds(mode_arg)
    \/ \E tf_arg \in Timeframes : BotBuilds(tf_arg)
    \/ \E answered \in BOOLEAN : AnalyzeMarketId(answered)
    \/ SecondPasses

SpecIds == InitBuild /\ [][NextIds]_vars

----------------------------------------------------------------------------
(* UnifiedTradingBot: automatic_analysis and manual_analysis as coroutines *)
(* of one event loop (src/main_bot.py).  A coroutine runs without          *)
(* interruption from one await to the next, so a step of a task is the     *)
(* code between two awaits.  A task stands at                              *)
(*   "new"           it has been scheduled and has not run                 *)
(*   "await_busy"    manual: the reply "Analysis in progress" is awaited   *)
(*   "await_status"  manual: the status message is awaited                 *)
(*   "await_final"   manual: the message of a return inside try is awaited *)
(*   "await_result"  manual: the edit with the result is awaited           *)
(*   "await_error"   manual: the reply of the except block is awaited      *)
(*   "await_alert"   automatic: send_telegram_alert is awaited             *)
(*   "done"          the coroutine has ended                               *)

MaxTasks == 3

TaskIds == 1..MaxTasks

\* the variables the handler coroutines leave alone
notBot == <<parserVars, sessionVars, docVars, retryVars, logVars, alertVars,
            analyzerVars, program, assistantVars, cycle_pc, cycle_analysis,
            events, ended, escaped, skipped, now, newsVars>>

\* mutant: the handler does not set the flag
AnalyzingNot == FALSE

\* self.is_analyzing = True
Analyzing == TRUE

InitTasks ==
    /\ ParserIdle
    /\ NewsIdle
    /\ SessionIdle
    /\ DocIdle
    /\ CycleIdle
    /\ program = "bot"
    /\ OneKey
    /\ LogIdle
    /\ NotifyIdle
    /\ AnalyzerIdle
    /\ total_manual_runs = 0
    /\ tasks \in [TaskIds -> {[kind |-> k, pc |-> "new"] :
                                k \in {"automatic", "manual"}}]

At(t, kind, where) == tasks[t].kind = kind /\ tasks[t].pc = where

Goto(t, where) == tasks' = [tasks EXCEPT ![t].pc = where]

\* automatic_analysis with the automatic mode off or outside trading hours
AutomaticOff(t) ==
    /\ At(t, "automatic", "new")
    /\ Goto(t, "done")
    /\ UNCHANGED <<botVars, total_manual_runs>>
    /\ UNCHANGED notBot

\* automatic_analysis finds the flag set
AutomaticSkip(t) ==
    /\ At(t, "automatic", "new")
    /\ Busy(is_analyzing)
    /\ Goto(t, "done")
    /\ UNCHANGED <<botVars, total_manual_runs>>
    /\ UNCHANGED notBot

\* automatic_analysis from its start to its end with no alert to send: a
\* return inside try, an exception, or the summary; it awaits nothing
AutomaticQuiet(t) ==
    /\ At(t, "automatic", "new")
    /\ ~Busy(is_analyzing)
    /\ is_analyzing' = Finally(Analyzing)
    /\ total_auto_runs' = total_auto_runs + 1
    /\ last_auto_run' = Some(now)
    /\ Goto(t, "done")
    /\ UNCHANGED total_manual_runs
    /\ UNCHANGED notBot

\* automatic_analysis from its start to await self.send_telegram_alert
AutomaticAlert(t) ==
    /\ At(t, "automatic", "new")
    /\ ~Busy(is_analyzing)
    /\ is_analyzing' = Analyzing
    /\ total_auto_runs' = total_auto_runs + 1
    /\ last_auto_run' = Some(now)
    /\ Goto(t, "await_alert")
    /\ UNCHANGED total_manual_runs
    /\ UNCHANGED notBot

\* automatic_analysis after the alert (sent, or the await raised): the
\* rest of try or the except block, then finally
AutomaticResume(t) ==
    /\ At(t, "automatic", "await_alert")
    /\ is_analyzing' = Finally(is_analyzing)
    /\ Goto(t, "done")
    /\ UNCHANGED <<total_auto_runs, last_auto_run, total_manual_runs>>
    /\ UNCHANGED notBot

\* manual_analysis finds the flag set and awaits its reply
ManualBusy(t) ==
    /\ At(t, "manual", "new")
    /\ Busy(is_analyzing)
    /\ Goto(t, "await_busy")
    /\ UNCHANGED <<botVars, total_manual_runs>>
    /\ UNCHANGED notBot

\* the reply is through (or raised, outside try): return
ManualBusyReturn(t) ==
    /\ At(t, "manual", "await_busy")
    /\ Goto(t, "done")
    /\ UNCHANGED <<botVars, total_manual_runs>>
    /\ UNCHANGED notBot

\* manual_analysis finds the flag free: sets it, counts, awaits the status
\* message
ManualStart(t) ==
    /\ At(t, "manual", "new")
    /\ ~Busy(is_analyzing)
    /\ is_analyzing' = Analyzing
    /\ total_manual_runs' = total_manual_runs + 1
    /\ Goto(t, "await_status")
    /\ UNCHANGED <<total_auto_runs, last_auto_run>>
    /\ UNCHANGED notBot

\* after the status message: collect and analyze, up to the next await:
\* "await_final" without data or without success, "await_result" with a
\* record, "await_error" when the await or a call raised
ManualAnalyze(t, where) ==
    /\ At(t, "manual", "await_status")
    /\ Goto(t, where)
    /\ UNCHANGED <<botVars, total_manual_runs>>
    /\ UNCHANGED notBot

\* an await inside try raised: the except block awaits its reply
ManualRaise(t) ==
    /\ tasks[t].kind = "manual"
    /\ tasks[t].pc \in {"await_final", "await_result"}
    /\ Goto(t, "await_error")
    /\ UNCHANGED <<botVars, total_manual_runs>>
    /\ UNCHANGED notBot

\* the last await is through (in the except block: or raised and was
\* passed over): return or log_analysis, then finally
ManualFinally(t) ==
    /\ tasks[t].kind = "manual"
    /\ tasks[t].pc \in {"await_final", "await_result", "await_error"}
    /\ is_analyzing' = Finally(is_analyzing)
    /\ Goto(t, "done")
    /\ UNCHANGED <<total_auto_runs, last_auto_run, total_manual_runs>>
    /\ UNCHANGED notBot

NextTasks ==
    \/ \E t \in TaskIds : AutomaticOff(t)
    \/ \E t \in TaskIds : AutomaticSkip(t)
    \/ \E t \in TaskIds : AutomaticQuiet(t)
    \/ \E t \in TaskIds : AutomaticAlert(t)
    \/ \E t \in TaskIds : AutomaticResume(t)
    \/ \E t \in TaskIds : ManualBusy(t)
    \/ \E t \in TaskIds : ManualBusyReturn(t)
    \/ \E t \in TaskIds : ManualStart(t)
    \/ \E t \in TaskIds,
          where \in {"await_final", "await_result", "await_error"} :
          ManualAnalyze(t, where)
    \/ \E t \in TaskIds : ManualRaise(t)
    \/ \E t \in TaskIds : ManualFinally(t)

SpecTasks == InitTasks /\ [][NextTasks]_vars

----------------------------------------------------------------------------
(* DataCollector.get_all_news (src/data_collector.py).  A title is         *)
(* [words, caps, tail]: words names the first 50 characters up to letter   *)
(* case, caps says whether they are written in capitals, tail whether the  *)
(* title goes on after them.  An article is [title, tiers, relevance_score]*)
(* where tiers are the keyword tiers found in its title and description    *)
(* and relevance_score is None when the dict has no such key: the articles *)
(* of get_news_newsapi and get_news_newsdata carry a score of              *)
(* _calculate_relevance, those of the other sources carry none.            *)

TOP_NEWS == 25
BACKUP_BELOW == 15
LongFeed == 13

Title(words, caps, tail) == [words |-> words, caps |-> caps, tail |-> tail]

Article(title, tiers, score) ==
    [title |-> title, tiers |-> tiers, relevance_score |-> score]

\* article['title'][:50].lower()
TitleKey(a) == [words |-> a.title.words, caps |-> FALSE]

\* calculate_relevance_score: 8 for tier 1, 4 for tier 2, 2 for tier 3
calculate_relevance_score(a) ==
    Min(15, (IF 1 \in a.tiers THEN 8 ELSE 0)
            + (IF 2 \in a.tiers THEN 4 ELSE 0)
            + (IF 3 \in a.tiers THEN 2 ELSE 0))

\* a feed of n articles with titles that differ in their first 50
\* characters, numbered from first
Feed(first, n, scored) ==
    [i \in 1..n |->
        Article(Title(first + i, FALSE, FALSE),
                IF i % 2 = 0 THEN {1, 3} ELSE {2},
                IF scored THEN Some(i % 4) ELSE None)]

GoldUp == Title(1, FALSE, FALSE)
GOLDUP == Title(1, TRUE, FALSE)
GoldUpMore == Title(1, FALSE, TRUE)
FedCuts == Title(2, FALSE, FALSE)

RssFeeds ==
    { <<>>,
      <<Article(GoldUp, {1}, None)>>,
      <<Article(FedCuts, {2, 3}, None), Article(GoldUp, {1, 2, 3}, None)>>,
      Feed(100, LongFeed, FALSE) }

NewsApiFeeds ==
    { <<>>,
      <<Article(GOLDUP, {1}, Some(4))>>,
      <<Article(FedCuts, {2}, Some(3))>>,
      Feed(200, LongFeed, TRUE) }

FinnhubFeeds == { <<>>, <<Article(GoldUpMore, {1}, None)>> }

NewsDataFeeds == { <<>>, <<Article(FedCuts, {2}, Some(10))>> }

MarketAuxFeeds == { <<>>, <<Article(Title(3, FALSE, FALSE), {}, None)>> }

\* all_news after the five sources; NewsData.io is asked only while fewer
\* than 15 articles have come in
AllNews(d) ==
    LET first == d.rss \o d.newsapi \o d.finnhub
    IN first
       \o (IF Len(first) < BACKUP_BELOW THEN d.newsdata ELSE <<>>)
       \o d.marketaux

\* the loop of lines 640-646: the first article of a title key is scored,
\* and every article is appended to unique_news
Scored(all) ==
    [i \in 1..Len(all) |->
        IF \A j \in 1..(i - 1) : TitleKey(all[j]) # TitleKey(all[i])
        THEN [all[i] EXCEPT
                 !.relevance_score = Some(calculate_relevance_score(all[i]))]
        ELSE all[i]]

\* list.sort(key=relevance_score, reverse=True): stable, highest first
RECURSIVE SortByScore(_)
SortByScore(s) ==
    IF s = <<>> THEN <<>>
    ELSE LET top == CHOOSE i \in 1..Len(s) :
                       /\ \A j \in 1..Len(s) :
                             s[j].relevance_score[1] <= s[i].relevance_score[1]
                       /\ \A j \in 1..(i - 1) :
                             s[j].relevance_score[1] < s[i].relevance_score[1]
         IN <<s[top]>>
            \o SortByScore(SubSeq(s, 1, top - 1) \o SubSeq(s, top + 1, Len(s)))

\* unique_news[:25]
Top(s) == SubSeq(s, 1, Min(TOP_NEWS, Len(s)))

\* get_all_news from the aggregated list on: the sort raises KeyError when
\* an article has no relevance_score
get_all_news(all) ==
    IF \E i \in 1..Len(all) : Scored(all)[i].relevance_score = None
    THEN [kind |-> "raised", error |-> "KeyError"]
    ELSE [kind |-> "returned", news |-> Top(SortByScore(Scored(all)))]

InitNews ==
    /\ ParserIdle
    /\ SessionIdle
    /\ DocIdle
    /\ CycleIdle
    /\ program = "assistant"
    /\ OneKey
    /\ LogIdle
    /\ NotifyIdle
    /\ AnalyzerIdle
    /\ TasksIdle
    /\ delivered \in [rss : RssFeeds, newsapi : NewsApiFeeds,
                      finnhub : FinnhubFeeds, newsdata : NewsDataFeeds,
                      marketaux : MarketAuxFeeds]
    /\ news_out = None

GetAllNews ==
    /\ news_out = None
    /\ news_out' = Some(get_all_news(AllNews(delivered)))
    /\ UNCHANGED delivered
    /\ UNCHANGED notNews

NextNews == GetAllNews

SpecNews == InitNews /\ [][NextNews]_vars

----------------------------------------------------------------------------
(* Properties of the returned record                                       *)

\* parse_structured_output has returned a success=true record
Returned == pc = "done" /\ result # None /\ result[1].success

\* C1: a returned success=true record with confidence < 6 recommends
\* NO TRADE, whatever recommendation the text stated.
C1_LowConfidenceNoTrade ==
    (Returned /\ result[1].confidence < 6)
        => result[1].trade_recommendation = NO_TRADE

\* a text that states BUY with a stop loss and low risk but has no
\* Confidence Score line comes back as NO TRADE with confidence 0
C1_Witness ==
    /\ Returned
    /\ analysis_text.conf = None
    /\ analysis_text.trade = Line("exact", <<" ","B","U","Y">>)
    /\ analysis_text.sl = Line("exact", <<" ","$","2","6","5","0",".","5">>)
    /\ analysis_text.risk = Line("exact", <<" ","L","O","W">>)
    /\ result[1].confidence = 0
    /\ result[1].trade_recommendation = NO_TRADE

\* C2: in scalping mode a returned success=true record with risk_level HIGH
\* recommends NO TRADE, also with confidence >= 6 and a stop loss.
C2_ScalpingHighRiskNoTrade ==
    (Returned /\ analysis_mode = "scalping" /\ result[1].risk_level = HIGH)
        => result[1].trade_recommendation = NO_TRADE

\* scalping, BUY stated with confidence 7 and a stop loss, Risk Level line
\* absent: the risk defaults to HIGH and the record says NO TRADE
C2_Witness ==
    /\ Returned
    /\ analysis_mode = "scalping"
    /\ analysis_text.trade = Line("exact", <<" ","B","U","Y">>)
    /\ analysis_text.risk = None
    /\ result[1].confidence = 7
    /\ Truthy(result[1].stop_loss)
    /\ result[1].risk_level = HIGH
    /\ result[1].trade_recommendation = NO_TRADE

\* C3: a returned success=true record that recommends BUY or SELL carries a
\* stop loss, and a text that states BUY or SELL without a parsable
\* "Stop Loss:" number comes back as NO TRADE.
C3_TradeHasStopLoss ==
    Returned =>
        /\ result[1].trade_recommendation \in {BUY, SELL}
              => (result[1].stop_loss # None /\ result[1].stop_loss[1].n > 0)
        /\ PriceSearch(analysis_text.sl) = None
              => result[1].trade_recommendation = NO_TRADE

\* intraday, BUY stated with confidence 7 and low risk, "Stop Loss: N/A":
\* the record has no stop loss and says NO TRADE
C3_Witness ==
    /\ Returned
    /\ analysis_mode = "intraday"
    /\ analysis_text.trade = Line("exact", <<" ","B","U","Y">>)
    /\ analysis_text.sl = Line("exact", <<" ","N","/","A">>)
    /\ result[1].confidence = 7
    /\ result[1].risk_level = LOW
    /\ result[1].stop_loss = None
    /\ result[1].trade_recommendation = NO_TRADE

\* C4: in a returned success=true record bias_strength is in 1..10 and
\* confidence in 0..10; a stated 999 is clamped to 10 and an absent line
\* gives bias_strength 5 and confidence 0.
C4_ClampedScores ==
    Returned =>
        /\ result[1].bias_strength \in 1..10
        /\ result[1].confidence \in 0..10
        /\ analysis_text.strength = Line("exact", <<" ","9","9","9">>)
              => result[1].bias_strength = 10
        /\ analysis_text.conf = Line("exact", <<" ","9","9","9">>)
              => result[1].confidence = 10
        /\ analysis_text.strength = None => result[1].bias_strength = 5
        /\ analysis_text.conf = None => result[1].confidence = 0

\* "Bias Strength: 999" with no Confidence Score line: 10 and 0
C4_Witness ==
    /\ Returned
    /\ analysis_text.strength = Line("exact", <<" ","9","9","9">>)
    /\ analysis_text.conf = None
    /\ result[1].bias_strength = 10
    /\ result[1].confidence = 0

\* C5: the returned recommendation is the recommendation stated in the text
\* when that is BUY or SELL, confidence >= 6, not (scalping and HIGH risk)
\* and a stop loss is present (parsed and non-zero, the test of line 481);
\* in every other case it is NO TRADE.
C5_GateClosedForm ==
    Returned =>
        LET r == result[1]
            stated == ExtractTradeRecommendation(analysis_text)
            trade == /\ stated \in {BUY, SELL}
                     /\ r.confidence >= 6
                     /\ ~(analysis_mode = "scalping" /\ r.risk_level = HIGH)
                     /\ r.stop_loss # None
                     /\ r.stop_loss[1].n > 0
        IN r.trade_recommendation = (IF trade THEN stated ELSE NO_TRADE)

\* scalping, "trade recommendation: ſell" with confidence 6, low risk and a
\* stop loss: every net lets it through and the record says SELL
C5_Witness ==
    /\ Returned
    /\ analysis_mode = "scalping"
    /\ analysis_text.trade = Line("lower", <<" ","s_LONG","e","l","l">>)
    /\ result[1].confidence = 6
    /\ result[1].risk_level = LOW
    /\ Truthy(result[1].stop_loss)
    /\ result[1].trade_recommendation = SELL

\* the recommendation has been extracted and the record is not yet returned
InOverrides ==
    pc \in {"confidence_net", "risk", "scalping_net", "levels",
            "stop_loss_net", "build"}

\* C6: within one evaluation a recommendation that is NO TRADE stays
\* NO TRADE through every later step and in the returned record, and the
\* returned recommendation is the parsed one or NO TRADE.
C6_OnlyDowngrade ==
    [][ /\ (InOverrides /\ trade_recommendation = NO_TRADE)
            => /\ trade_recommendation' = NO_TRADE
               /\ (result' # None /\ result'[1].success)
                     => result'[1].trade_recommendation = NO_TRADE
        /\ (pc' = "done" /\ result' # None /\ result'[1].success)
            => result'[1].trade_recommendation
                  \in {ExtractTradeRecommendation(analysis_text'), NO_TRADE}
      ]_vars

\* a stated BUY was vetoed by the confidence net and the returned record,
\* which has a stop loss and low risk, still says NO TRADE
C6_Witness ==
    /\ Returned
    /\ ExtractTradeRecommendation(analysis_text) = BUY
    /\ result[1].confidence = 5
    /\ result[1].risk_level = LOW
    /\ Truthy(result[1].stop_loss)
    /\ result[1].trade_recommendation = NO_TRADE

\* C7: in a returned success=true record the three enum fields hold a token
\* of their vocabulary, and a missing or non-matching line gives the default.
C7_EnumVocabulary ==
    Returned =>
        /\ result[1].market_bias \in {BULLISH, BEARISH, NEUTRAL}
        /\ result[1].trade_recommendation \in {BUY, SELL, NO_TRADE}
        /\ result[1].risk_level \in {LOW, MEDIUM, HIGH}
        /\ EnumSearch(analysis_text.bias, <<BULLISH, BEARISH, NEUTRAL>>) = None
              => result[1].market_bias = NEUTRAL
        /\ EnumSearch(analysis_text.trade, <<BUY, SELL, NO_TRADE>>) = None
              => result[1].trade_recommendation = NO_TRADE
        /\ EnumSearch(analysis_text.risk, <<LOW, MEDIUM, HIGH>>) = None
              => result[1].risk_level = HIGH

\* C8: parse_structured_output never raises; it always returns a record, and
\* when extraction cannot proceed (non-text input, unusable market_data) the
\* record has success=false, the raw text and an error, and no decision field.
C8_NeverRaises ==
    /\ ~raised
    /\ pc = "done" =>
         /\ result # None
         /\ (analysis_text = NonText \/ market_data # "snapshot")
               => ~result[1].success
         /\ ~result[1].success
               => /\ {"error", "raw_output"} \subseteq DOMAIN result[1]
                  /\ DOMAIN result[1] \cap DecisionFields = {}
                  /\ result[1].raw_output = analysis_text
                  /\ result[1].error = "Parsing failed"

\* a complete text parsed with a market_data that is no dictionary comes
\* back as a failure record carrying that text
C8_Witness ==
    /\ pc = "done"
    /\ ~raised
    /\ analysis_text # NonText
    /\ market_data = "None"
    /\ result # None
    /\ ~result[1].success
    /\ result[1].raw_output = analysis_text

----------------------------------------------------------------------------
(* Properties of should_alert                                              *)

\* C9: with the shipped thresholds, should_alert returning true implies
\* success, a recommendation other than NO TRADE, confidence >= 6, a stop
\* loss and, in scalping mode, a risk level other than HIGH.
C9_AlertWithinSafetyGate ==
    (alert_in # None /\ alert_out) =>
        LET r == alert_in[1]
        IN /\ "success" \in DOMAIN r /\ r.success
           /\ "trade_recommendation" \in DOMAIN r
           /\ r.trade_recommendation # NO_TRADE
           /\ "confidence" \in DOMAIN r /\ r.confidence >= 6
           /\ "stop_loss" \in DOMAIN r
           /\ r.stop_loss # None /\ r.stop_loss[1].n > 0
           /\ analysis_mode = "scalping"
                 => ("risk_level" \in DOMAIN r /\ r.risk_level # HIGH)

\* a hand-built record (no analysis_mode key) raises an alert in scalping mode
C9_Witness ==
    /\ pc = "alerted"
    /\ analysis_mode = "scalping"
    /\ alert_in # None
    /\ alert_out
    /\ alert_in[1].confidence = 7
    /\ alert_in[1].risk_level = LOW

\* C10: should_alert returns true exactly when success, a recommendation
\* other than NO TRADE, confidence >= CONFIDENCE_THRESHOLD, in scalping mode
\* confidence >= SCALPING_CONFIDENCE_THRESHOLD and risk other than HIGH, and
\* a stop loss; the thresholds are the configured ones.
C10_AlertExactly ==
    alert_in # None =>
        LET r == alert_in[1]
            ok == /\ Get(r, "success", FALSE)
                  /\ Get(r, "trade_recommendation", NO_TRADE) # NO_TRADE
                  /\ Get(r, "confidence", 0) >= config.CONFIDENCE_THRESHOLD
                  /\ analysis_mode = "scalping"
                        => /\ Get(r, "confidence", 0)
                                 >= config.SCALPING_CONFIDENCE_THRESHOLD
                           /\ Get(r, "risk_level", HIGH) # HIGH
                  /\ Truthy(Get(r, "stop_loss", None))
        IN alert_out = ok

----------------------------------------------------------------------------
(* Properties of the session classifier                                    *)

\* C11: for each of the 1440 minutes of the day get_trading_session returns
\* exactly the label of the window the minute lies in: 00:00-08:00 ASIA,
\* 08:00-16:00 LONDON, 16:00-22:00 NEW_YORK, 22:00-24:00 ASIA_LATE; the
\* label is the one of the first minute of the same hour.
C11_SessionPartition ==
    session # "" =>
        /\ session \in {"ASIA", "LONDON", "NEW_YORK", "ASIA_LATE"}
        /\ session = "ASIA" <=> (0 <= utc_minute /\ utc_minute < 480)
        /\ session = "LONDON" <=> (480 <= utc_minute /\ utc_minute < 960)
        /\ session = "NEW_YORK" <=> (960 <= utc_minute /\ utc_minute < 1320)
        /\ session = "ASIA_LATE" <=> (1320 <= utc_minute /\ utc_minute < 1440)
        /\ session = get_trading_session(60 * (utc_minute \div 60))

\* 08:00 sharp is the first minute of LONDON
C11_Witness == utc_minute = 480 /\ session = "LONDON"

----------------------------------------------------------------------------
(* Properties of the parse of whole responses                              *)

BothParsed == rec_a # None /\ rec_b # None

\* C12: for two responses that differ only in the presence or content of one
\* of the nine listed fields, the records agree on every other listed field,
\* a removed field takes its default, and the session of both is the
\* session of the clock whatever the text says.
C12_FieldIndependence ==
    BothParsed =>
        /\ \A f \in ListedFields :
              Differing(doc_a, doc_b) = {f} =>
                /\ \A g \in ListedFields \ {f} :
                      rec_a[1][RecordKey(g)] = rec_b[1][RecordKey(g)]
                /\ doc_b[f] = None => rec_b[1][RecordKey(f)] = DefaultOf(f)
        /\ rec_a[1].session = get_trading_session(utc_minute)
        /\ rec_b[1].session = rec_a[1].session

\* C13: the key factors of a response with a Key Factors block are the
\* bulleted lines of the block, in order, each without its bullet marker and
\* trimmed, nothing else removed; other lines are dropped; extracting again
\* from the factors written back as bullets gives the same list.
C13_KeyFactorsExact ==
    (rec_a # None /\ doc_a.factors # None /\ doc_a.setup # None) =>
        LET lines == SplitLines(doc_a.factors[1])
            bullets == SelectSeq(lines, IsBullet)
            Unbullet(l) ==
                LET t == PyStrip(l, Whitespace)
                IN PyStrip(SubSeq(t, 2, Len(t)), Whitespace)
            got == rec_a[1].key_factors
        IN /\ Len(got) = Len(bullets)
           /\ \A i \in 1..Len(bullets) : got[i] = Unbullet(bullets[i])
           /\ ExtractKeyFactors(<<"Key Factors:">> \o Rebullet(got)) = got

\* C14: a response whose Bias Strength line states -5 gives a record with
\* bias_strength 1.
C14_NegativeStrengthClamped ==
    /\ (rec_a # None /\ doc_a.strength = Some(<<" ","-","5">>))
          => rec_a[1].bias_strength = 1
    /\ (rec_b # None /\ doc_b.strength = Some(<<" ","-","5">>))
          => rec_b[1].bias_strength = 1

\* C15: the empty response gives a success=false record that carries the raw
\* text and an error; a response that is not empty gives success=true
\* whichever fields are missing.
C15_EmptyResponseFails ==
    rec_a # None =>
        IF Render(doc_a) = <<>>
        THEN /\ ~rec_a[1].success
             /\ "error" \in DOMAIN rec_a[1]
             /\ "raw_output" \in DOMAIN rec_a[1]
        ELSE rec_a[1].success

\* C16: an analyzer in ultra_scalping mode returns NO TRADE in every
\* success=true record with risk_level HIGH, and should_alert is false for
\* such a record.
C16_UltraScalpingHighRisk ==
    /\ (Returned /\ analysis_mode = "ultra_scalping"
            /\ result[1].risk_level = HIGH)
          => result[1].trade_recommendation = NO_TRADE
    /\ (alert_in # None /\ analysis_mode = "ultra_scalping"
            /\ Get(alert_in[1], "success", FALSE)
            /\ Get(alert_in[1], "risk_level", None) = HIGH)
          => ~alert_out

----------------------------------------------------------------------------
(* Properties of the analysis cycles                                       *)

\* C17: a trigger of run_analysis that arrives while is_running is true is
\* dropped: it changes nothing but the count of dropped triggers (no data
\* collected, no model call, no log, no notification, run_count,
\* last_run_time and is_running as before), and no step taken while
\* is_running is true starts a run.
C17_BusyTriggerDropped ==
    [][(program = "assistant" /\ is_running) =>
          /\ run_count' = run_count
          /\ last_run_time' = last_run_time
          /\ skipped' # skipped =>
                UNCHANGED <<is_running, run_count, last_run_time, cycle_pc,
                            cycle_analysis, events, ended, escaped>>]_vars

\* a trigger was dropped in the middle of the first run
C17_Witness ==
    /\ program = "assistant"
    /\ is_running
    /\ skipped = 1
    /\ run_count = 1
    /\ cycle_pc = "analyze"
    /\ events = {"collect", "save_market_data"}

C20_NoDataAborts ==
    (cycle_pc = "idle" /\ ended = "no_data") =>
        /\ "model" \notin events
        /\ events \cap {"save_market_data", "log_analysis",
                        "log_performance"} = {}
        /\ "error" \in events

----------------------------------------------------------------------------
(* Properties of analyze_market                                            *)

\* C19: one call of analyze_market sends at most max(1, number of keys)
\* requests; a request after the first is sent only after a quota error and
\* with a key this call has not used; after any other error no request
\* follows and the call returns success=false with that error; a call that
\* ends on a quota error has tried every key and returns success=false.
C19_BoundedSelectiveRetry ==
    /\ calls <= Max(1, Len(api_keys))
    /\ (retry_pc = "try" /\ calls >= 1) =>
          (last_error = "quota" /\ current_key_index \notin keys_used)
    /\ last_error = "other" => retry_pc \in {"except", "done", "idle"}
    /\ (retry_pc = "done" /\ last_error = "other") =>
          structured = Some(ErrorRecord("other"))
    /\ (retry_pc = "done" /\ structured = Some(ErrorRecord("quota"))) =>
          (calls = Max(1, Len(api_keys))
             /\ keys_used = 0..(Len(api_keys) - 1))
    /\ retry_pc = "done" => structured # None

\* with three keys two quota errors were followed by rotations and the third
\* key met the quota as well
C19_Witness ==
    /\ retry_pc = "done"
    /\ Len(api_keys) = 3
    /\ calls = 3
    /\ keys_used = {0, 1, 2}
    /\ structured = Some(ErrorRecord("quota"))

\* C29: current_key_index is always an index of api_keys; a call of
\* _rotate_api_key with more than one key moves it on by one modulo the
\* number of keys and returns True, and with one key changes nothing and
\* returns False; and within one call of analyze_market no key is sent more
\* than one request.
C29_KeyRotation ==
    /\ [](/\ current_key_index \in 0..(Len(api_keys) - 1)
          /\ Cardinality(keys_used) = calls)
    /\ [][rotated'.calls # rotated.calls =>
             /\ api_keys' = api_keys
             /\ IF Len(api_keys) > 1
                THEN /\ current_key_index' =
                            (current_key_index + 1) % Len(api_keys)
                     /\ rotated'.returned
                ELSE /\ current_key_index' = current_key_index
                     /\ ~rotated'.returned]_vars

\* the second analysis started on the second of three keys, met the quota
\* on every key and has gone round to the first
C29_Witness ==
    /\ Len(api_keys) = 3
    /\ analysis_count = 2
    /\ retry_pc = "done"
    /\ calls = 3
    /\ keys_used = {0, 1, 2}
    /\ current_key_index = 0
    /\ rotated.returned

----------------------------------------------------------------------------
(* Properties of the logger                                                *)

\* C21: the stored analysis log never holds more than 500 entries, the
\* performance log never more than 200, the market-data history never more
\* than 1000; a call that appends to a full list and writes it leaves the
\* list without its oldest entry and nothing else missing, and a call that
\* writes leaves the new entry last.
C21_BoundedRetention ==
    /\ log_file.kind = "list" => Len(log_file.data) <= 500
    /\ perf_file.kind = "list" => Len(perf_file.data) <= 200
    /\ market_file.kind = "list" => Len(market_file.data) <= 1000
    /\ log_call # None =>
          LET c == log_call[1]
              file == FileOf(c.fn)
          IN /\ c.write = "ok" =>
                  /\ file.kind = "list"
                  /\ file.data[Len(file.data)] = c.entry
             /\ (c.write = "ok" /\ c.read_ok /\ c.before.kind = "list"
                    /\ Len(c.before.data) = KeepOf(c.fn)) =>
                  file.data = Tail(c.before.data) \o <<c.entry>>

\* the analysis log held 500 entries and the call dropped entry 1
C21_Witness ==
    /\ log_call # None
    /\ log_call[1].fn = "log_analysis"
    /\ log_call[1].before.kind = "list"
    /\ Len(log_call[1].before.data) = 500
    /\ log_call[1].read_ok
    /\ log_file.kind = "list"
    /\ Len(log_file.data) = 500
    /\ log_file.data[1] = 2
    /\ log_file.data[500] = log_call[1].entry

\* C22: after a call whose write succeeds, the stored list is the list that
\* was stored before followed by the new entry, cut to its last N entries,
\* whether or not the file could be read when the call started; a missing
\* file counts as the empty list.
C22_AppendOnly ==
    (log_call # None /\ log_call[1].write = "ok") =>
        LET c == log_call[1]
            before == IF c.before.kind = "list" THEN c.before.data ELSE <<>>
        IN FileOf(c.fn) = ListFile(LastN(before \o <<c.entry>>, KeepOf(c.fn)))

----------------------------------------------------------------------------
(* Properties of the notifier                                              *)

\* C23: when send_alert has ended it has returned, it has not raised, and
\* every enabled channel was tried exactly once in the call and stands in
\* the results with True or False, whatever the other channels ended in.
C23_ChannelsIndependent ==
    alert_pc \in {"returned", "raised"} =>
        /\ alert_pc = "returned"
        /\ \A c \in enabled_methods :
              attempts[c] = 1 /\ results[c] \in {"True", "False"}

----------------------------------------------------------------------------
(* Properties of the analyzers and their ids                               *)

\* C24: any two records that analyze_market returned in one process have
\* different ids, and of two records of the same analyzer the later one has
\* the greater counter in its id.
C24_UniqueIds ==
    \A i, j \in 1..Len(issued) :
        i < j =>
            /\ issued[i].id # issued[j].id
            /\ issued[i].analyzer = issued[j].analyzer =>
                   issued[i].id[2] < issued[j].id[2]

\* the mode the claim gives to a timeframe
ModeOfTimeframe(timeframe) ==
    CASE timeframe \in {"M1", "M3", "M5"} -> "ultra_scalping"
      [] timeframe \in {"M15", "M30"} -> "scalping"
      [] timeframe \in {"H1", "H4"} -> "intraday"
      [] timeframe \in {"D1"} -> "swing"

\* C25: an analyzer built with a timeframe and no mode has the mode of its
\* timeframe: ultra_scalping for M1/M3/M5, scalping for M15/M30, intraday
\* for H1/H4, swing for D1.
C25_ModeOfTimeframe ==
    /\ analyzer # None
    /\ built_with[1].analysis_mode = NotGiven
    /\ built_with[1].timeframe \in Timeframes
    => analyzer[1].analysis_mode = ModeOfTimeframe(built_with[1].timeframe)

----------------------------------------------------------------------------
(* Properties of the price levels                                          *)

\* C26: in every success=true record each of stop_loss, take_profit_1 and
\* take_profit_2 is None or a number greater than 0.
C26_PositiveLevels ==
    Returned =>
        \A level \in {"stop_loss", "take_profit_1", "take_profit_2"} :
            result[1][level] = None \/ result[1][level][1].n > 0

----------------------------------------------------------------------------
(* Properties of the bot's handler coroutines                              *)

\* the task is between setting is_analyzing and its finally block
InFlight(t) ==
    tasks[t].pc \in {"await_status", "await_final", "await_result",
                     "await_error", "await_alert"}

\* the task takes a step from its start with the flag set, or its step
\* after the reply that an analysis is in progress
FindsFlagSet(t) ==
    \/ tasks[t].pc = "new" /\ is_analyzing /\ tasks'[t].pc # "new"
    \/ tasks[t].pc = "await_busy" /\ tasks'[t].pc # "await_busy"

\* C27: at most one analysis of the bot is between setting is_analyzing
\* and its finally block, the flag is false whenever none is; and a handler
\* that finds the flag set leaves the flag and the run counters as they are
\* and ends without entering its try block.
C27_NoOverlap ==
    /\ [](/\ \A t, u \in TaskIds : InFlight(t) /\ InFlight(u) => t = u
          /\ (\A t \in TaskIds : ~InFlight(t)) => ~is_analyzing)
    /\ [][\A t \in TaskIds :
             FindsFlagSet(t) =>
                 /\ UNCHANGED <<is_analyzing, total_auto_runs,
                                total_manual_runs>>
                 /\ tasks'[t].pc \in {"await_busy", "done"}]_vars

\* an analysis is in flight, a manual and an automatic handler have found
\* the flag set
C27_Witness ==
    /\ is_analyzing
    /\ \E t, u, w \in TaskIds :
          /\ InFlight(t)
          /\ tasks[u] = [kind |-> "manual", pc |-> "await_busy"]
          /\ tasks[w] = [kind |-> "automatic", pc |-> "done"]
          /\ total_auto_runs = 0

----------------------------------------------------------------------------
(* Properties of get_all_news                                              *)

\* C30: the list get_all_news returns has no two articles with the same
\* lower-cased first 50 characters of title, every article has a
\* relevance_score within 0..15, the scores do not increase along the list
\* and the list has at most 25 articles.
C30_RankedUniqueNews ==
    (news_out # None /\ news_out[1].kind = "returned") =>
        LET news == news_out[1].news
        IN /\ \A i, j \in 1..Len(news) :
                  i # j => TitleKey(news[i]) # TitleKey(news[j])
           /\ \A i \in 1..Len(news) :
                  /\ news[i].relevance_score # None
                  /\ news[i].relevance_score[1] \in 0..15
           /\ \A i \in 1..(Len(news) - 1) :
                  news[i].relevance_score[1] >= news[i + 1].relevance_score[1]
           /\ Len(news) <= TOP_NEWS

====
